---- MODULE Spec2Model ----
(***************************************************************************)
(* A model of the noise-suppression pipeline of the repository:            *)
(*   - WasmLoader            (src/src/utils/denoise/WasmLoader.ts)         *)
(*   - DeepFilterNetLoader   (src/unnamed/part_012)                        *)
(*   - AudioDenoiserBase     (src/src/utils/denoise/logger.ts)             *)
(*   - RNNoiseProcessor      (src/src/utils/denoise/processors/...)        *)
(*   - DeepFilterNetProcessor(src/unnamed/part_012)                        *)
(* JavaScript runs one task at a time: every action below is one           *)
(* synchronous run of code between two awaits.                             *)
(***************************************************************************)
EXTENDS Integers, Sequences, FiniteSets, TLC

VARIABLES
  \* ---- WasmLoader<T> (one loader object) ----
  wl_status,       \* _status
  wl_module,       \* _module          (0 = null, k = the module of load attempt k)
  wl_loadPromise,  \* _loadPromise     (0 = null, k = the promise of attempt k)
  wl_promises,     \* every promise load() created: [state, value]
  wl_calls,        \* every load() call made: what it returned
  wl_loadFnCalls,  \* number of invocations of loadFn
  wl_resetCalled,  \* history: reset() was called at least once
  wl_lastOp,       \* history: the operation of the last step
  \* ---- DeepFilterNetLoader (static, one per process) ----
  nl_wasmData,     \* wasmData        (fetch = 0: null; payload: the model as fetched)
  nl_isLoading,    \* isLoading
  nl_basePath,     \* basePath        (<<>> = undefined)
  nl_fetches,      \* every set of fetches started: [by, basePath, state]
  nl_callers,      \* every loadWasmData() call: where it stands, what it got
  nl_resetSeen,    \* history: reset() ran after a set of fetches had been started
  \* ---- one denoiser instance (AudioDenoiserBase and its subclass) ----
  dn_type,         \* type: RNNOISE or DEEP_FILTER_NET
  dn_isInitialized,\* _isInitialized
  dn_lastVadScore, \* _lastVadScore                      (thousandths)
  dn_module,       \* wasmModule / wasm                  (0 = null)
  dn_context,      \* context                            (0 = none)
  dn_inBuf,        \* pcmInputBuffer                     (0 = none)
  dn_outBuf,       \* pcmOutputBuffer                    (0 = none)
  dn_frameSize,    \* _frameSize
  dn_smoothedGain, \* smoothedGain                       (thousandths)
  dn_prevVadScore, \* prevVadScore                       (thousandths)
  dn_frameCount,   \* frameCount / processedFrameCount
  dn_pendingInits, \* initialize() calls awaiting the loader
  dn_initCalls,    \* history: initialize() calls made
  dn_pfCalls,      \* history: processFrame() calls made
  dn_hookCalls,    \* history: doProcessFrame() invocations
  dn_frame,        \* the caller's frame buffer, which processFrame() works on
  dn_ret,          \* history: what the last processFrame() returned, or that it threw
  dn_kernelVad,    \* history: the VAD the kernel returned to the last hook call
  k_live,          \* kernel heap: the handles allocated and not freed
  k_doubleFree,    \* kernel heap: a handle that was not live has been freed
  k_log,           \* history: what the last step released, in order
  dn_lastOp,       \* history: "destroy" after a destroy() call, "initThrew"
                   \* after an initialize() that rejected, else "other"
  \* ---- AudioTrackDenoiser.create() / reset() (the static singleton) ----
  ta_instance,     \* AudioTrackDenoiser.instance     (0 = null, k = k-th object)
  ta_denoiser,     \* per object created: where its denoiser's initialize() stands
  ta_creators,     \* every create() call: where it stands, what it returned
  ta_resets,       \* history: reset() calls made
  \* ---- one AudioTrackDenoiser and the denoiser it holds ----
  td_status,       \* the denoiser's initialize(): "pending", "ready" or "failed"
  td_type,         \* denoiser.type
  td_kernelSize,   \* the frame size the denoiser's kernel reports
  tp_applyVadGain, \* config.applyVadGain
  tp_state,        \* state: <<>> = null, <<s>> = the ProcessingState s
  tp_sessions,     \* every session started: its track, abort signal, generator
  tp_processedTrack,\* processedTrack    (0 = null, k = the generator of session k)
  tp_emitted,      \* history: the frames enqueued downstream, in order
  tp_lastIn,       \* the source's clock: timestamp, duration, size of its last frame
  tp_transforms,   \* history: transform() calls made
  tp_lastOp,       \* history: the last call and how it ended
  \* ---- one VadGainProcessor with the default configuration ----
  vg_state,        \* state
  vg_ret,          \* what the last computeGain returned
  vg_score,        \* history: the score of the last computeGain
  vg_calls,        \* history: computeGain calls made
  vg_changes,      \* history: how often the score differed from the one before
  \* ---- one VadGainProcessor that is also configured and reset ----
  vc_config,       \* config
  vc_state,        \* state
  vc_ops,          \* history: calls made on it
  vc_lastOp,       \* history: the last call made on it
  \* ---- DenoiserRegistry ----
  rg_registrations,\* registrations, in the order of the Map's keys
  rg_result,       \* history: the last call on the registry and its result
  rg_factoryCalls, \* history: how often a registered factory was invoked
  rg_ops,          \* history: calls made on the registry
  \* ---- one DeepFilterNetProcessor that is configured at run time ----
  dc_isInitialized,\* _isInitialized
  dc_wasm,         \* wasm is not null
  dc_context,      \* context (0: none)
  dc_config,       \* config.attenLimit (dB) and config.postFilterBeta (hundredths)
  dc_kernel,       \* kernel: the limit and beta of each context created
  dc_pendingInits, \* initialize() calls awaiting the loader
  dc_ops,          \* history: calls made on the instance
  dc_call,         \* history: the last call, its argument and its outcome
  \* ---- one call of greatestCommonDivisor or leastCommonMultiple ----
  gm_fn,           \* the function called ("none" before the first call)
  gm_num1,         \* num1
  gm_num2,         \* num2
  gm_a,            \* a of greatestCommonDivisor
  gm_b,            \* b of greatestCommonDivisor
  gm_pc,           \* "idle", "loop" (at the while test) or "done" (returned)
  gm_result,       \* the value returned
  gm_tick          \* history: the parity of the iterations the loop has made

wlVars == <<wl_status, wl_module, wl_loadPromise, wl_promises, wl_calls,
            wl_loadFnCalls, wl_resetCalled, wl_lastOp>>

nlVars == <<nl_wasmData, nl_isLoading, nl_basePath, nl_fetches, nl_callers,
            nl_resetSeen>>

dnVars == <<dn_type, dn_isInitialized, dn_lastVadScore, dn_module, dn_context,
            dn_inBuf, dn_outBuf, dn_frameSize, dn_smoothedGain, dn_prevVadScore,
            dn_frameCount, dn_pendingInits, dn_initCalls, dn_pfCalls,
            dn_hookCalls, dn_frame, dn_ret, dn_kernelVad, k_live, k_doubleFree,
            k_log,
            dn_lastOp>>

taVars == <<ta_instance, ta_denoiser, ta_creators, ta_resets>>

tpVars == <<td_status, td_type, td_kernelSize, tp_applyVadGain, tp_state,
            tp_sessions, tp_processedTrack, tp_emitted, tp_lastIn,
            tp_transforms, tp_lastOp>>

vgVars == <<vg_state, vg_ret, vg_score, vg_calls, vg_changes>>

vcVars == <<vc_config, vc_state, vc_ops, vc_lastOp>>

rgVars == <<rg_registrations, rg_result, rg_factoryCalls, rg_ops>>

dcVars == <<dc_isInitialized, dc_wasm, dc_context, dc_config, dc_kernel,
            dc_pendingInits, dc_ops, dc_call>>

gmVars == <<gm_fn, gm_num1, gm_num2, gm_a, gm_b, gm_pc, gm_result, gm_tick>>

vars == <<wlVars, nlVars, dnVars, taVars, tpVars, vgVars, vcVars, rgVars,
          dcVars, gmVars>>

\* ------------------------------------------------------------------------
\* Bounds of the model
\* ------------------------------------------------------------------------
\* load() calls made on the loader
MaxCalls == 3
\* concurrent loadWasmData() calls (initialize() of as many neural denoisers)
NumCallers == 2
\* initialize() calls made on the denoiser
MaxInits == 2
\* processFrame() calls made on the denoiser
MaxFrames == 2
\* the frame size the kernel reports (480 in the real kernels)
KernelFrameSize == 2
\* create() calls and reset() calls on the singleton
NumCreators == 3
MaxResets == 1
\* startProcessing() calls and transform() calls on one AudioTrackDenoiser
MaxSessions == 2
MaxTransforms == 2
\* computeGain calls on one VadGainProcessor, and changes of the score fed to it
MaxGainCalls == 64
MaxScoreChanges == 1
\* calls of any kind on the VadGainProcessor that is configured
MaxGainOps == 5
\* calls on the DenoiserRegistry
MaxRegistryOps == 3
\* calls made on the neural denoiser that is configured at run time
MaxConfigOps == 5
\* the largest argument given to greatestCommonDivisor and leastCommonMultiple
MaxOperand == 9

\* ------------------------------------------------------------------------
\* LoadStatus (src/src/utils/denoise/DenoiserRegistry.ts:317-322)
\* ------------------------------------------------------------------------
NOT_LOADED == "not_loaded"
LOADING == "loading"
LOADED == "loaded"
ERROR == "error"

\* ========================================================================
\* WasmLoader
\* ========================================================================

\* load(), line 34: the cached module is returned
WL_IsCached == wl_status = LOADED /\ wl_module # 0

WL_JoinsInFlight_never == FALSE

\* load(), line 40: the existing promise is returned
WL_JoinsInFlight == wl_status = LOADING /\ wl_loadPromise # 0

\* what a load() call returned: the cached module, or a promise
WL_CallCached(m) == [kind |-> "cached", module |-> m, promise |-> 0]
WL_CallPromise(k) == [kind |-> "promise", module |-> 0, promise |-> k]

\* the outcome a caller awaiting call c observes
WL_Outcome(c) ==
  IF wl_calls[c].kind = "cached"
    THEN [state |-> "fulfilled", value |-> wl_calls[c].module]
    ELSE wl_promises[wl_calls[c].promise]

\* load(): lines 32-66
WL_Load ==
  /\ Len(wl_calls) < MaxCalls
  /\ wl_lastOp' = "load"
  /\ IF WL_IsCached
       THEN /\ wl_calls' = Append(wl_calls, WL_CallCached(wl_module))
            /\ UNCHANGED <<wl_status, wl_module, wl_loadPromise, wl_promises,
                           wl_loadFnCalls, wl_resetCalled>>
       ELSE IF WL_JoinsInFlight
         THEN /\ wl_calls' = Append(wl_calls, WL_CallPromise(wl_loadPromise))
              /\ UNCHANGED <<wl_status, wl_module, wl_loadPromise, wl_promises,
                             wl_loadFnCalls, wl_resetCalled>>
         ELSE /\ wl_status' = LOADING
              /\ wl_loadFnCalls' = wl_loadFnCalls + 1
              /\ wl_promises' = Append(wl_promises, [state |-> "pending", value |-> 0])
              /\ wl_loadPromise' = Len(wl_promises) + 1
              /\ wl_calls' = Append(wl_calls, WL_CallPromise(Len(wl_promises) + 1))
              /\ UNCHANGED <<wl_module, wl_resetCalled>>

WL_FailStatus_notLoaded == NOT_LOADED

\* the status the catch handler sets, line 59
WL_FailStatus == ERROR

\* loadFn of attempt k resolved: the then handler, lines 51-57.
\* The handler writes the loader's fields whatever the loader's state is now.
WL_Resolve(k) ==
  /\ wl_promises[k].state = "pending"
  /\ wl_module' = k
  /\ wl_status' = LOADED
  /\ wl_promises' = [wl_promises EXCEPT ![k] = [state |-> "fulfilled", value |-> k]]
  /\ wl_lastOp' = "resolve"
  /\ UNCHANGED <<wl_loadPromise, wl_calls, wl_loadFnCalls, wl_resetCalled>>

\* loadFn of attempt k rejected: the catch handler, lines 58-63
WL_Reject(k) ==
  /\ wl_promises[k].state = "pending"
  /\ wl_status' = WL_FailStatus
  /\ wl_module' = 0
  /\ wl_promises' = [wl_promises EXCEPT ![k] = [state |-> "rejected", value |-> k]]
  /\ wl_lastOp' = "reject"
  /\ UNCHANGED <<wl_loadPromise, wl_calls, wl_loadFnCalls, wl_resetCalled>>

\* reset(): lines 79-84
WL_Reset ==
  /\ wl_status' = NOT_LOADED
  /\ wl_module' = 0
  /\ wl_loadPromise' = 0
  /\ wl_resetCalled' = TRUE
  /\ wl_lastOp' = "reset"
  /\ UNCHANGED <<wl_promises, wl_calls, wl_loadFnCalls>>

\* the loader after construction, lines 16-18
WL_Init ==
  /\ wl_status = NOT_LOADED
  /\ wl_module = 0
  /\ wl_loadPromise = 0
  /\ wl_promises = <<>>
  /\ wl_calls = <<>>
  /\ wl_loadFnCalls = 0
  /\ wl_resetCalled = FALSE
  /\ wl_lastOp = "new"

WL_Next ==
  \/ WL_Load /\ UNCHANGED <<nlVars, dnVars, taVars, tpVars, vgVars, vcVars, rgVars, dcVars, gmVars>>
  \/ \E k \in 1..MaxCalls :
        k <= Len(wl_promises) /\ WL_Resolve(k) /\ UNCHANGED <<nlVars, dnVars, taVars, tpVars, vgVars, vcVars, rgVars, dcVars, gmVars>>
  \/ \E k \in 1..MaxCalls :
        k <= Len(wl_promises) /\ WL_Reject(k) /\ UNCHANGED <<nlVars, dnVars, taVars, tpVars, vgVars, vcVars, rgVars, dcVars, gmVars>>
  \/ WL_Reset /\ UNCHANGED <<nlVars, dnVars, taVars, tpVars, vgVars, vcVars, rgVars, dcVars, gmVars>>

\* ========================================================================
\* DeepFilterNetLoader (src/unnamed/part_012, lines 51-147)
\* ========================================================================

\* GZIP_MAGIC, line 45
GZIP_MAGIC == <<31, 139>>

\* the model payloads a server may deliver, gzip-framed or decompressed on
\* the way: one of every kind the check of lines 107-109 tells apart (empty,
\* one byte, the magic alone, the magic and more, either magic byte wrong)
NL_Payloads ==
  { <<>>, <<31>>, <<31, 139>>, <<31, 139, 8>>, <<31, 0>>, <<0, 139>>,
    <<116, 97, 114>> }

\* the paths a caller may configure: with and without the trailing slash
NL_Paths == {<<"a">>, <<"a", "/">>, <<"b">>}

\* '/deepfilternet/', line 70
NL_DefaultBasePath == <<"/", "deepfilternet", "/">>

\* setBasePath, line 58: path.endsWith('/') ? path : path + '/'
NL_Normalize(path) ==
  IF Len(path) > 0 /\ path[Len(path)] = "/" THEN path ELSE Append(path, "/")

\* getBasePath(), lines 65-71
NL_GetBasePath == IF nl_basePath = <<>> THEN NL_DefaultBasePath ELSE nl_basePath

NL_IsGzipped_firstByteOnly(modelData) ==
  Len(modelData) >= 1 /\ modelData[1] = GZIP_MAGIC[1]

\* lines 107-109
NL_IsGzipped(modelData) ==
  /\ Len(modelData) >= 2
  /\ modelData[1] = GZIP_MAGIC[1]
  /\ modelData[2] = GZIP_MAGIC[2]

\* fflate's gzipSync, line 116: a gzip member, the header (magic, CM = 8)
\* followed by the body, here the stored bytes
NL_GzipSync(modelData) == GZIP_MAGIC \o <<8>> \o modelData

\* wasmData = null
NL_Null == [fetch |-> 0, basePath |-> <<>>, payload |-> <<>>, modelData |-> <<>>]

\* the latest set of fetches still in flight (0: none)
NL_InFlight ==
  LET ks == {k \in 1..Len(nl_fetches) : nl_fetches[k].state = "inflight"}
  IN IF ks = {} THEN 0 ELSE CHOOSE k \in ks : \A j \in ks : j <= k

\* reset(), lines 143-146
NL_DoReset ==
  /\ nl_wasmData' = NL_Null
  /\ nl_isLoading' = FALSE
  /\ nl_resetSeen' = (nl_resetSeen \/ Len(nl_fetches) > 0)

\* DeepFilterNetProcessor.resetLoader(), lines 325-327
NL_Reset ==
  /\ NL_DoReset
  /\ UNCHANGED <<nl_basePath, nl_fetches, nl_callers>>

\* setBasePath(path), lines 57-63 (called by the processor's constructor,
\* line 189, by preload, line 321, and by the static setBasePath, line 330)
NL_SetBasePath(path) ==
  /\ nl_basePath # NL_Normalize(path)
  /\ nl_basePath' = NL_Normalize(path)
  /\ NL_DoReset
  /\ UNCHANGED <<nl_fetches, nl_callers>>

\* lines 83-96: the flag is set and the three fetches are issued for the
\* base path read at this moment (cs: the callers, the call's entry recorded)
NL_BeginFetch(cs, c) ==
  /\ nl_isLoading' = TRUE
  /\ nl_fetches' = Append(nl_fetches,
        [by |-> c, basePath |-> NL_GetBasePath, state |-> "inflight"])
  /\ nl_callers' = [cs EXCEPT ![c].pc = "fetching"]
  /\ UNCHANGED <<nl_wasmData, nl_basePath, nl_resetSeen>>

\* lines 74 and 80: the cached data is returned
NL_ReturnCached(cs, c) ==
  /\ nl_callers' = [cs EXCEPT ![c].pc = "returned",
                              ![c].result = nl_wasmData.fetch]
  /\ UNCHANGED <<nl_wasmData, nl_isLoading, nl_basePath, nl_fetches, nl_resetSeen>>

\* loadWasmData() is called, lines 73-83: the run up to the first await
NL_Call(c) ==
  /\ nl_callers[c].pc = "idle"
  /\ LET cs == [nl_callers EXCEPT ![c].keyAtCall = NL_GetBasePath] IN
     IF nl_wasmData.fetch # 0
       THEN NL_ReturnCached(cs, c)
       ELSE IF nl_isLoading
         THEN /\ nl_callers' = [cs EXCEPT ![c].pc = "polling",
                                          ![c].joined = NL_InFlight]
              /\ UNCHANGED <<nl_wasmData, nl_isLoading, nl_basePath, nl_fetches,
                             nl_resetSeen>>
         ELSE NL_BeginFetch(cs, c)

\* lines 77-83: a 50 ms timer of the waiting loop fires and finds the flag
\* cleared (a timer that finds it set changes nothing)
NL_Poll(c) ==
  /\ nl_callers[c].pc = "polling"
  /\ ~nl_isLoading
  /\ IF nl_wasmData.fetch # 0
       THEN NL_ReturnCached(nl_callers, c)
       ELSE NL_BeginFetch(nl_callers, c)

\* lines 98-136: the three responses of set k arrived and are ok; the model
\* payload is checked, re-compressed if need be, and the data is cached
NL_FetchOk(k, payload) ==
  /\ nl_fetches[k].state = "inflight"
  /\ LET modelData == IF NL_IsGzipped(payload) THEN payload ELSE NL_GzipSync(payload)
         c == nl_fetches[k].by
     IN /\ nl_wasmData' = [fetch |-> k, basePath |-> nl_fetches[k].basePath,
                           payload |-> payload, modelData |-> modelData]
        /\ nl_callers' = [nl_callers EXCEPT ![c].pc = "returned",
                                            ![c].result = k]
  /\ nl_isLoading' = FALSE
  /\ nl_fetches' = [nl_fetches EXCEPT ![k].state = "ok"]
  /\ UNCHANGED <<nl_basePath, nl_resetSeen>>

\* why a load throws: a fetch rejects, a response is not ok (lines 98-100),
\* or the re-compression fails (lines 118-121)
NL_FailReasons == {"network", "df.js", "df_bg.wasm", "model", "gzip"}

\* lines 98-100, 118-121, 134-136: set k fails; the error goes to the caller
\* that started it, nothing is cached, the finally block clears the flag
NL_FetchFail(k, reason) ==
  /\ nl_fetches[k].state = "inflight"
  /\ reason = "gzip" => \E payload \in NL_Payloads : ~NL_IsGzipped(payload)
  /\ nl_fetches' = [nl_fetches EXCEPT ![k].state = "failed"]
  /\ nl_callers' = [nl_callers EXCEPT ![nl_fetches[k].by].pc = "threw",
                                      ![nl_fetches[k].by].result = k]
  /\ nl_isLoading' = FALSE
  /\ UNCHANGED <<nl_wasmData, nl_basePath, nl_resetSeen>>

\* the loader when the module is loaded, lines 52-54; no call made yet
NL_Init ==
  /\ nl_wasmData = NL_Null
  /\ nl_isLoading = FALSE
  /\ nl_basePath = <<>>
  /\ nl_fetches = <<>>
  /\ nl_callers = [c \in 1..NumCallers |->
        [pc |-> "idle", joined |-> 0, keyAtCall |-> <<>>, result |-> 0]]
  /\ nl_resetSeen = FALSE

NL_Next ==
  \/ \E c \in 1..NumCallers : NL_Call(c) /\ UNCHANGED <<wlVars, dnVars, taVars, tpVars, vgVars, vcVars, rgVars, dcVars, gmVars>>
  \/ \E c \in 1..NumCallers : NL_Poll(c) /\ UNCHANGED <<wlVars, dnVars, taVars, tpVars, vgVars, vcVars, rgVars, dcVars, gmVars>>
  \/ \E k \in 1..NumCallers, payload \in NL_Payloads :
        k <= Len(nl_fetches) /\ NL_FetchOk(k, payload) /\ UNCHANGED <<wlVars, dnVars, taVars, tpVars, vgVars, vcVars, rgVars, dcVars, gmVars>>
  \/ \E k \in 1..NumCallers, reason \in NL_FailReasons :
        k <= Len(nl_fetches) /\ NL_FetchFail(k, reason) /\ UNCHANGED <<wlVars, dnVars, taVars, tpVars, vgVars, vcVars, rgVars, dcVars, gmVars>>
  \/ \E path \in NL_Paths : NL_SetBasePath(path) /\ UNCHANGED <<wlVars, dnVars, taVars, tpVars, vgVars, vcVars, rgVars, dcVars, gmVars>>
  \/ NL_Reset /\ UNCHANGED <<wlVars, dnVars, taVars, tpVars, vgVars, vcVars, rgVars, dcVars, gmVars>>

\* ========================================================================
\* Denoiser: AudioDenoiserBase (src/src/utils/denoise/logger.ts, 165-277),
\* RNNoiseProcessor (src/src/utils/denoise/processors/RNNoiseProcessor.ts),
\* DeepFilterNetProcessor (src/unnamed/part_012, 171-332).
\* Sample values, gains and VAD scores are fixed-point, in thousandths.
\* ========================================================================

\* DenoiserType (src/src/utils/denoise/DenoiserRegistry.ts:218-221)
RNNOISE == "rnnoise"
DEEP_FILTER_NET == "deepfilternet"

\* RNNoiseProcessor.ts:32 and part_012:44
DEFAULT_FRAME_SIZE == 480
\* RNNoiseProcessor.ts:33
SCALE_TO_INT16 == 32767
\* RNNoiseProcessor.ts:37-39, in thousandths
GAIN_ATTACK_COEFF == 300
GAIN_RELEASE_COEFF == 50
MIN_OUTPUT_GAIN == 100

\* the VAD scores the spectral kernel may return, all within [0, 1]
VadValues == {0, 100, 400, 1000}

\* the sample values of inbound frames
SampleValues == {-1000, 500}

RECURSIVE DN_FramesOfLen(_)
DN_FramesOfLen(n) ==
  IF n = 0 THEN {<<>>}
  ELSE {Append(f, x) : f \in DN_FramesOfLen(n - 1), x \in SampleValues}

\* the frames a caller may pass: of the kernel's size, one shorter, one longer
DN_Frames ==
  DN_FramesOfLen(KernelFrameSize - 1) \cup DN_FramesOfLen(KernelFrameSize)
    \cup DN_FramesOfLen(KernelFrameSize + 1)

\* kernel heap: malloc / create return a handle that is not live
K_Fresh(live) == CHOOSE h \in 1..(Cardinality(live) + 1) : h \notin live

\* what processFrame() gave back
DN_Returned(v) == [kind |-> "value", value |-> v]
DN_Threw == [kind |-> "threw", value |-> 0]
DN_NoCall == [kind |-> "none", value |-> 0]

\* ---- initialize(), logger.ts:199-222 ---------------------------------

\* initialize() up to the await of doInitialize(), which itself runs up to
\* the await of the loader (RNNoiseProcessor.ts:140-141, part_012:194).
\* Already initialized: a warning, and nothing else (lines 200-203).
DN_InitStarts_always == TRUE

\* line 200: initialize() goes on to doInitialize() unless already initialized
DN_InitStarts == ~dn_isInitialized

DN_InitializeCall ==
  /\ dn_lastOp' = "other"
  /\ dn_initCalls < MaxInits
  /\ dn_initCalls' = dn_initCalls + 1
  /\ dn_pendingInits' = IF DN_InitStarts THEN dn_pendingInits + 1
                        ELSE dn_pendingInits
  /\ UNCHANGED <<dn_type, dn_isInitialized, dn_lastVadScore, dn_module,
                 dn_context, dn_inBuf, dn_outBuf, dn_frameSize, dn_smoothedGain,
                 dn_prevVadScore, dn_frameCount, dn_pfCalls, dn_hookCalls,
                 dn_frame, dn_ret, dn_kernelVad, k_live, k_doubleFree>>
  /\ k_log' = <<>>

\* the loader rejected: doInitialize() throws at its await, the catch of
\* initialize() clears the flag (lines 217-221)
DN_InitLoaderFailed ==
  /\ dn_lastOp' = "initThrew"
  /\ dn_pendingInits > 0
  /\ dn_pendingInits' = dn_pendingInits - 1
  /\ dn_isInitialized' = FALSE
  /\ UNCHANGED <<dn_type, dn_lastVadScore, dn_module, dn_context, dn_inBuf,
                 dn_outBuf, dn_frameSize, dn_smoothedGain, dn_prevVadScore,
                 dn_frameCount, dn_initCalls, dn_pfCalls, dn_hookCalls,
                 dn_frame, dn_ret, dn_kernelVad, k_live, k_doubleFree>>
  /\ k_log' = <<>>

\* the heap calls of doInitialize, lines 146-153, that returned a handle:
\* the context first, then the input buffer, then the output buffer
K_Allocs(ctx, inB, outB) ==
  (IF ctx # 0 THEN <<[op |-> "alloc", res |-> "context"]>> ELSE <<>>)
    \o (IF inB # 0 THEN <<[op |-> "alloc", res |-> "input"]>> ELSE <<>>)
    \o (IF outB # 0 THEN <<[op |-> "alloc", res |-> "output"]>> ELSE <<>>)

\* the heap calls of releaseResources, lines 239-255, in the order it makes
\* them, for the handles the instance holds
RN_Releases(ctx, inB, outB) ==
  (IF ctx # 0 THEN <<[op |-> "free", res |-> "context"]>> ELSE <<>>)
    \o (IF inB # 0 THEN <<[op |-> "free", res |-> "input"]>> ELSE <<>>)
    \o (IF outB # 0 THEN <<[op |-> "free", res |-> "output"]>> ELSE <<>>)

\* RNNoiseProcessor.doInitialize() after the loader resolved, lines 141-168,
\* then initialize() lines 210-221. createOk, inOk, outOk: whether
\* _rnnoise_create and the two _malloc calls return a non-zero handle.
RN_ReleaseAfterAllocFailure_none(live, handles) == live

\* lines 155-158: releaseResources() frees what this call allocated
RN_ReleaseAfterAllocFailure(live, handles) == live \ handles

RN_InitLoaded(createOk, inOk, outOk) ==
  /\ dn_lastOp' = (IF createOk /\ inOk /\ outOk THEN "other" ELSE "initThrew")
  /\ dn_type = RNNOISE
  /\ dn_pendingInits > 0
  /\ dn_pendingInits' = dn_pendingInits - 1
  /\ dn_frameSize' = KernelFrameSize
  /\ LET ctx == IF createOk THEN K_Fresh(k_live) ELSE 0
         live1 == k_live \cup ({ctx} \ {0})
         inB == IF inOk THEN K_Fresh(live1) ELSE 0
         live2 == live1 \cup ({inB} \ {0})
         outB == IF outOk THEN K_Fresh(live2) ELSE 0
         live3 == live2 \cup ({outB} \ {0})
     IN IF ~createOk
          THEN \* line 148: throws, nothing is released
               /\ dn_module' = 1
               /\ dn_context' = 0
               /\ dn_isInitialized' = FALSE
               /\ UNCHANGED <<dn_inBuf, dn_outBuf, dn_smoothedGain,
                              dn_prevVadScore, dn_frameCount, k_live>>
               /\ k_log' = <<>>
          ELSE IF ~(inOk /\ outOk)
            THEN \* lines 155-158: releaseResources(), then throws
                 /\ dn_module' = 0
                 /\ dn_context' = 0
                 /\ dn_inBuf' = 0
                 /\ dn_outBuf' = 0
                 /\ k_live' = RN_ReleaseAfterAllocFailure(live3, {ctx, inB, outB})
                 /\ k_log' = RN_Releases(ctx, inB, outB)
                 /\ dn_isInitialized' = FALSE
                 /\ UNCHANGED <<dn_smoothedGain, dn_prevVadScore, dn_frameCount>>
            ELSE /\ dn_module' = 1
                 /\ dn_context' = ctx
                 /\ dn_inBuf' = inB
                 /\ dn_outBuf' = outB
                 /\ k_live' = live3
                 /\ k_log' = <<>>
                 /\ dn_smoothedGain' = 1000
                 /\ dn_prevVadScore' = 0
                 /\ dn_frameCount' = 0
                 /\ dn_isInitialized' = TRUE
  /\ UNCHANGED <<dn_type, dn_lastVadScore, dn_initCalls, dn_pfCalls,
                 dn_hookCalls, dn_frame, dn_ret, dn_kernelVad, k_doubleFree>>

\* DeepFilterNetProcessor.doInitialize() after loadWasmData() resolved,
\* part_012:197-227, then initialize() lines 210-221. bindgenOk: wasm_bindgen
\* is available and instantiates; createOk: df_create returns a context.
DF_InitLoaded(bindgenOk, createOk) ==
  /\ dn_lastOp' = (IF bindgenOk /\ createOk THEN "other" ELSE "initThrew")
  /\ dn_type = DEEP_FILTER_NET
  /\ dn_pendingInits > 0
  /\ dn_pendingInits' = dn_pendingInits - 1
  /\ IF ~bindgenOk
       THEN /\ dn_isInitialized' = FALSE
            /\ UNCHANGED <<dn_module, dn_context, dn_frameSize, k_live>>
       ELSE IF ~createOk
         THEN /\ dn_module' = 1
              /\ dn_context' = 0
              /\ dn_isInitialized' = FALSE
              /\ UNCHANGED <<dn_frameSize, k_live>>
         ELSE /\ dn_module' = 1
              /\ dn_context' = K_Fresh(k_live)
              /\ k_live' = k_live \cup {K_Fresh(k_live)}
              /\ dn_frameSize' = KernelFrameSize
              /\ dn_isInitialized' = TRUE
  /\ UNCHANGED <<dn_type, dn_lastVadScore, dn_inBuf, dn_outBuf,
                 dn_smoothedGain, dn_prevVadScore, dn_frameCount, dn_initCalls,
                 dn_pfCalls, dn_hookCalls, dn_frame, dn_ret,
                 dn_kernelVad, k_doubleFree>>
  /\ k_log' = <<>>

\* ---- processFrame(), logger.ts:224-241 --------------------------------

\* line 225: the instance is initialized
DN_IsReady == dn_isInitialized

DN_FrameLengthOk_any(frame) == TRUE

\* line 229: the frame has the denoiser's frame size
DN_FrameLengthOk(frame) == Len(frame) = dn_frameSize

DN_NewLastVad_stale(vadScore) == dn_lastVadScore

\* line 234: the value stored as _lastVadScore
DN_NewLastVad(vadScore) == vadScore

\* RNNoiseProcessor.computeTargetGain, lines 214-229
RN_ComputeTargetGain(vadScore) ==
  LET smoothedVad == (7 * vadScore + 3 * dn_prevVadScore) \div 10
  IN IF smoothedVad > 500 THEN 1000
     ELSE IF smoothedVad < 200
       THEN MIN_OUTPUT_GAIN + (smoothedVad * (500 - MIN_OUTPUT_GAIN)) \div 200
       ELSE 500 + ((smoothedVad - 200) * 500) \div 300

\* lines 196-197: the gain after smoothing towards the target
RN_SmoothGain(targetGain) ==
  LET gainCoeff == IF targetGain > dn_smoothedGain THEN GAIN_ATTACK_COEFF
                   ELSE GAIN_RELEASE_COEFF
  IN dn_smoothedGain + (gainCoeff * (targetGain - dn_smoothedGain)) \div 1000

\* the kernel's output for one input sample: passed on, or suppressed
K_Denoise(x, suppress) == IF suppress THEN 0 ELSE x

\* lines 181-203: one sample through the scratch buffers and the kernel,
\* scaled to int16 and back, with the smoothed gain applied
RN_Sample(x, suppress, gain) ==
  ((K_Denoise(x * SCALE_TO_INT16, suppress) \div SCALE_TO_INT16) * gain) \div 1000

\* processFrame() throws: nothing but the call itself is recorded
DN_ProcessThrows ==
  /\ dn_ret' = DN_Threw
  /\ UNCHANGED <<dn_frame, dn_lastVadScore, dn_smoothedGain, dn_prevVadScore,
                 dn_frameCount, dn_hookCalls, dn_kernelVad>>

\* RNNoiseProcessor.doProcessFrame, lines 171-207, and lines 233-240 of the
\* base; vadScore and suppress are the kernel's answers
RN_DoProcessFrame ==
  IF dn_module = 0
    THEN DN_ProcessThrows
    ELSE \E vadScore \in VadValues, suppress \in BOOLEAN :
         LET gain == RN_SmoothGain(RN_ComputeTargetGain(vadScore))
         IN /\ dn_frameCount' = dn_frameCount + 1
            /\ dn_hookCalls' = dn_hookCalls + 1
            /\ dn_kernelVad' = vadScore
            /\ dn_smoothedGain' = gain
            /\ dn_frame' = [i \in 1..Len(dn_frame) |->
                              IF i <= dn_frameSize
                                THEN RN_Sample(dn_frame[i], suppress, gain)
                                ELSE dn_frame[i]]
            /\ dn_prevVadScore' = vadScore
            /\ dn_lastVadScore' = DN_NewLastVad(vadScore)
            /\ dn_ret' = DN_Returned(vadScore)

\* DeepFilterNetProcessor.doProcessFrame, part_012:232-271, and lines
\* 233-240 of the base: the kernel's frame replaces the caller's, VAD is 0
DF_DoProcessFrame ==
  IF dn_module = 0 \/ dn_context = 0
    THEN DN_ProcessThrows
    ELSE \E suppress \in BOOLEAN :
         /\ dn_frameCount' = dn_frameCount + 1
         /\ dn_hookCalls' = dn_hookCalls + 1
         /\ dn_frame' = [i \in 1..Len(dn_frame) |-> K_Denoise(dn_frame[i], suppress)]
         /\ dn_lastVadScore' = DN_NewLastVad(0)
         /\ dn_ret' = DN_Returned(0)
         /\ UNCHANGED <<dn_smoothedGain, dn_prevVadScore, dn_kernelVad>>

\* the caller puts the samples of the next frame into its buffer
DN_FillFrame(frame) ==
  /\ dn_lastOp' = "other"
  /\ dn_pfCalls < MaxFrames
  /\ dn_frame' = frame
  /\ UNCHANGED <<dn_type, dn_isInitialized, dn_lastVadScore, dn_module,
                 dn_context, dn_inBuf, dn_outBuf, dn_frameSize, dn_smoothedGain,
                 dn_prevVadScore, dn_frameCount, dn_pendingInits, dn_initCalls,
                 dn_pfCalls, dn_hookCalls, dn_ret, dn_kernelVad, k_live,
                 k_doubleFree>>
  /\ k_log' = <<>>

\* processFrame(frame), on the caller's buffer, in place
DN_ProcessFrame ==
  /\ dn_lastOp' = "other"
  /\ dn_pfCalls < MaxFrames
  /\ dn_pfCalls' = dn_pfCalls + 1
  /\ IF ~DN_IsReady \/ ~DN_FrameLengthOk(dn_frame)
       THEN DN_ProcessThrows
       ELSE IF dn_type = RNNOISE
         THEN RN_DoProcessFrame
         ELSE DF_DoProcessFrame
  /\ UNCHANGED <<dn_type, dn_isInitialized, dn_module, dn_context, dn_inBuf,
                 dn_outBuf, dn_frameSize, dn_pendingInits, dn_initCalls,
                 k_live, k_doubleFree>>
  /\ k_log' = <<>>

\* ---- destroy(), logger.ts:243-259 -------------------------------------

\* _rnnoise_destroy / _free of handle h (0: the call is not made)
K_FreeLive(live, h) == live \ {h}
K_FreeIsDouble(live, h) == h # 0 /\ h \notin live

\* destroy(): a no-op unless initialized; else doDestroy() and the flag is
\* cleared. RNNoiseProcessor.releaseResources, lines 239-255;
\* DeepFilterNetProcessor.doDestroy, part_012:273-276.
DN_Destroy ==
  /\ dn_lastOp' = "destroy"
  /\ dn_isInitialized
  /\ dn_isInitialized' = FALSE
  /\ IF dn_type = RNNOISE
       THEN /\ dn_module' = 0
            /\ IF dn_module # 0
                 THEN /\ dn_context' = 0
                      /\ dn_inBuf' = 0
                      /\ dn_outBuf' = 0
                      /\ k_live' = K_FreeLive(K_FreeLive(K_FreeLive(k_live,
                                     dn_context), dn_inBuf), dn_outBuf)
                      /\ k_log' = RN_Releases(dn_context, dn_inBuf, dn_outBuf)
                      /\ k_doubleFree' =
                           \/ k_doubleFree
                           \/ K_FreeIsDouble(k_live, dn_context)
                           \/ K_FreeIsDouble(K_FreeLive(k_live, dn_context), dn_inBuf)
                           \/ K_FreeIsDouble(K_FreeLive(K_FreeLive(k_live,
                                     dn_context), dn_inBuf), dn_outBuf)
                 ELSE /\ k_log' = <<>>
                      /\ UNCHANGED <<dn_context, dn_inBuf, dn_outBuf, k_live,
                                     k_doubleFree>>
       ELSE /\ dn_module' = 0
            /\ dn_context' = 0
            /\ k_log' = <<>>
            /\ UNCHANGED <<dn_inBuf, dn_outBuf, k_live, k_doubleFree>>
  /\ UNCHANGED <<dn_type, dn_lastVadScore, dn_frameSize, dn_smoothedGain,
                 dn_prevVadScore, dn_frameCount, dn_pendingInits, dn_initCalls,
                 dn_pfCalls, dn_hookCalls, dn_frame, dn_ret, dn_kernelVad>>

\* destroy() on an instance that is not initialized: returns at line 245
DN_DestroyNoop ==
  /\ ~dn_isInitialized
  /\ dn_lastOp' = "destroy"
  /\ UNCHANGED <<dn_type, dn_isInitialized, dn_lastVadScore, dn_module,
                 dn_context, dn_inBuf, dn_outBuf, dn_frameSize, dn_smoothedGain,
                 dn_prevVadScore, dn_frameCount, dn_pendingInits, dn_initCalls,
                 dn_pfCalls, dn_hookCalls, dn_frame, dn_ret, dn_kernelVad,
                 k_live, k_doubleFree>>
  /\ k_log' = <<>>

\* the instance after construction: logger.ts:167-168,
\* RNNoiseProcessor.ts:123-132, part_012:176-178 and 230
DN_Init ==
  /\ dn_type \in {RNNOISE, DEEP_FILTER_NET}
  /\ dn_isInitialized = FALSE
  /\ dn_lastVadScore = 0
  /\ dn_module = 0
  /\ dn_context = 0
  /\ dn_inBuf = 0
  /\ dn_outBuf = 0
  /\ dn_frameSize = DEFAULT_FRAME_SIZE
  /\ dn_smoothedGain = 1000
  /\ dn_prevVadScore = 0
  /\ dn_frameCount = 0
  /\ dn_pendingInits = 0
  /\ dn_initCalls = 0
  /\ dn_pfCalls = 0
  /\ dn_hookCalls = 0
  /\ dn_frame = <<>>
  /\ dn_ret = DN_NoCall
  /\ dn_kernelVad = 0
  /\ k_live = {}
  /\ k_doubleFree = FALSE
  /\ k_log = <<>>
  /\ dn_lastOp = "other"

DN_Next ==
  \/ DN_InitializeCall /\ UNCHANGED <<wlVars, nlVars, taVars, tpVars, vgVars, vcVars, rgVars, dcVars, gmVars>>
  \/ DN_InitLoaderFailed /\ UNCHANGED <<wlVars, nlVars, taVars, tpVars, vgVars, vcVars, rgVars, dcVars, gmVars>>
  \/ \E createOk \in BOOLEAN, inOk \in BOOLEAN, outOk \in BOOLEAN :
        RN_InitLoaded(createOk, inOk, outOk) /\ UNCHANGED <<wlVars, nlVars, taVars, tpVars, vgVars, vcVars, rgVars, dcVars, gmVars>>
  \/ \E bindgenOk \in BOOLEAN, createOk \in BOOLEAN :
        DF_InitLoaded(bindgenOk, createOk) /\ UNCHANGED <<wlVars, nlVars, taVars, tpVars, vgVars, vcVars, rgVars, dcVars, gmVars>>
  \/ \E frame \in DN_Frames : DN_FillFrame(frame) /\ UNCHANGED <<wlVars, nlVars, taVars, tpVars, vgVars, vcVars, rgVars, dcVars, gmVars>>
  \/ DN_ProcessFrame /\ UNCHANGED <<wlVars, nlVars, taVars, tpVars, vgVars, vcVars, rgVars, dcVars, gmVars>>
  \/ DN_Destroy /\ UNCHANGED <<wlVars, nlVars, taVars, tpVars, vgVars, vcVars, rgVars, dcVars, gmVars>>
  \/ DN_DestroyNoop /\ UNCHANGED <<wlVars, nlVars, taVars, tpVars, vgVars, vcVars, rgVars, dcVars, gmVars>>
\* ========================================================================
\* AudioTrackDenoiser.create and reset (src/unnamed/part_013:83-150)
\* ========================================================================

\* a create() call that has not been made
TA_Idle == [pc |-> "idle", awaits |-> 0, got |-> 0, ready |-> FALSE]

\* line 94: create() returns the static instance as it is at that moment;
\* ready records whether that object's denoiser had completed initialize()
TA_Return(inst, awaited) ==
  [pc |-> "returned", awaits |-> awaited, got |-> inst,
   ready |-> (inst # 0 /\ ta_denoiser[inst] = "ready")]

\* create(), lines 83-95 and 116-142, up to its await or its return: with no
\* instance, a new object becomes the instance and its denoiser's
\* initialize() is awaited; with an instance, that instance is returned
TA_Create(c) ==
  /\ ta_creators[c].pc = "idle"
  /\ IF ta_instance = 0
       THEN /\ ta_instance' = Len(ta_denoiser) + 1
            /\ ta_denoiser' = Append(ta_denoiser, "pending")
            /\ ta_creators' = [ta_creators EXCEPT ![c] =
                 [pc |-> "awaiting", awaits |-> Len(ta_denoiser) + 1,
                  got |-> 0, ready |-> FALSE]]
       ELSE /\ ta_creators' = [ta_creators EXCEPT ![c] = TA_Return(ta_instance, 0)]
            /\ UNCHANGED <<ta_instance, ta_denoiser>>
  /\ UNCHANGED ta_resets

\* initialize() of object k's denoiser resolves (line 142); the create() that
\* awaited it goes on to line 94
TA_InitOk(k) ==
  /\ k <= Len(ta_denoiser)
  /\ ta_denoiser[k] = "pending"
  /\ ta_denoiser' = [ta_denoiser EXCEPT ![k] = "ready"]
  /\ ta_creators' = [c \in 1..NumCreators |->
       IF ta_creators[c].pc = "awaiting" /\ ta_creators[c].awaits = k
         THEN [pc |-> "returned", awaits |-> k, got |-> ta_instance,
               ready |-> (ta_instance # 0
                          /\ ta_denoiser'[ta_instance] = "ready")]
         ELSE ta_creators[c]]
  /\ UNCHANGED <<ta_instance, ta_resets>>

\* initialize() of object k's denoiser rejects: the create() that awaited it
\* rejects at line 89, and the object stays the instance
TA_InitFail(k) ==
  /\ k <= Len(ta_denoiser)
  /\ ta_denoiser[k] = "pending"
  /\ ta_denoiser' = [ta_denoiser EXCEPT ![k] = "failed"]
  /\ ta_creators' = [c \in 1..NumCreators |->
       IF ta_creators[c].pc = "awaiting" /\ ta_creators[c].awaits = k
         THEN [pc |-> "threw", awaits |-> k, got |-> 0, ready |-> FALSE]
         ELSE ta_creators[c]]
  /\ UNCHANGED <<ta_instance, ta_resets>>

\* reset(), lines 101-110: the instance's denoiser is destroyed (which does
\* nothing to one that is not initialized) and the instance is dropped
TA_Reset ==
  /\ ta_resets < MaxResets
  /\ ta_resets' = ta_resets + 1
  /\ IF ta_instance # 0
       THEN /\ ta_denoiser' = [ta_denoiser EXCEPT ![ta_instance] =
                 IF @ = "ready" THEN "destroyed" ELSE @]
            /\ ta_instance' = 0
       ELSE UNCHANGED <<ta_instance, ta_denoiser>>
  /\ UNCHANGED ta_creators

TA_Init ==
  /\ ta_instance = 0
  /\ ta_denoiser = <<>>
  /\ ta_creators = [c \in 1..NumCreators |-> TA_Idle]
  /\ ta_resets = 0

TA_Next ==
  \/ \E c \in 1..NumCreators : TA_Create(c) /\ UNCHANGED <<wlVars, nlVars, dnVars, tpVars, vgVars, vcVars, rgVars, dcVars, gmVars>>
  \/ \E k \in 1..NumCreators : TA_InitOk(k) /\ UNCHANGED <<wlVars, nlVars, dnVars, tpVars, vgVars, vcVars, rgVars, dcVars, gmVars>>
  \/ \E k \in 1..NumCreators : TA_InitFail(k) /\ UNCHANGED <<wlVars, nlVars, dnVars, tpVars, vgVars, vcVars, rgVars, dcVars, gmVars>>
  \/ TA_Reset /\ UNCHANGED <<wlVars, nlVars, dnVars, tpVars, vgVars, vcVars, rgVars, dcVars, gmVars>>

\* ========================================================================
\* VadGainProcessor (src/src/utils/denoise/WasmLoader.ts:151-308)
\* gains and smoothed scores are in ten-thousandths: 10000 is 1.0
\* ========================================================================

\* DEFAULT_VAD_CONFIG, lines 132-140
VG_vadSmoothingFactor == 800
VG_vadThreshold == 3000
VG_hangoverFrames == 45
VG_minGateGain == 1500
VG_attackSmoothing == 1500
VG_releaseSmoothing == 300
VG_hangoverFadeStart == 6000
\* blendRatio, line 261
VG_blendRatio == 1000

Min2(a, b) == IF a <= b THEN a ELSE b
Max2(a, b) == IF a >= b THEN a ELSE b

\* math.ts:33-35 and 40-42 (t is a configured factor, within [0, 1])
VG_Clamp(value, lo, hi) == Max2(lo, Min2(hi, value))
VG_Lerp(a, b, t) == a + ((b - a) * VG_Clamp(t, 0, 10000)) \div 10000

\* x cubed, x in ten-thousandths
VG_Cube(x) == (((x * x) \div 10000) * x) \div 10000

\* createInitialState, lines 160-167
VG_InitialState ==
  [smoothedVad |-> 0, hangoverFrames |-> 0, previousGain |-> 10000,
   targetGain |-> 10000]

\* DEFAULT_VAD_CONFIG, lines 132-140
DEFAULT_VAD_CONFIG ==
  [vadSmoothingFactor |-> VG_vadSmoothingFactor,
   vadThreshold |-> VG_vadThreshold,
   hangoverFrames |-> VG_hangoverFrames,
   minGateGain |-> VG_minGateGain,
   attackSmoothing |-> VG_attackSmoothing,
   releaseSmoothing |-> VG_releaseSmoothing,
   hangoverFadeStart |-> VG_hangoverFadeStart]

\* the soft gate of lines 227-231
VG_SoftGate_noFloor(config, cubicFade) ==
  ((10000 - config.minGateGain) * cubicFade) \div 10000
VG_SoftGate(config, cubicFade) ==
  config.minGateGain + ((10000 - config.minGateGain) * cubicFade) \div 10000

\* computeTargetGain, lines 205-232, under config, of smoothed score sv and
\* hangover h
VG_TargetGain(config, sv, h) ==
  IF sv > config.vadThreshold THEN 10000
  ELSE IF h > 0
    THEN LET progress == 10000 - (h * 10000) \div config.hangoverFrames
         IN IF progress < config.hangoverFadeStart THEN 10000
            ELSE LET fadeProgress == ((progress - config.hangoverFadeStart) * 10000)
                                       \div (10000 - config.hangoverFadeStart)
                     easedFade == 10000 - VG_Cube(10000 - fadeProgress)
                 IN 10000 - (easedFade * (10000 - 2 * config.minGateGain)) \div 10000
    ELSE LET vadNormalized == VG_Clamp((sv * 10000) \div config.vadThreshold, 0, 10000)
         IN VG_SoftGate(config, VG_Cube(vadNormalized))

\* computeGain, lines 174-203, under config: the state after it; its result
\* is previousGain (vadScore in thousandths)
VG_Gain(config, g, vadScore) ==
  LET vs == vadScore * 10
      smoothingFactor == IF vs > g.smoothedVad THEN config.attackSmoothing
                         ELSE config.vadSmoothingFactor
      sv == VG_Lerp(g.smoothedVad, vs, smoothingFactor)
      h == IF sv > config.vadThreshold THEN config.hangoverFrames
           ELSE IF g.hangoverFrames > 0 THEN g.hangoverFrames - 1
           ELSE g.hangoverFrames
      target == VG_TargetGain(config, sv, h)
      gainSmoothing == IF target > g.previousGain THEN config.attackSmoothing
                       ELSE config.releaseSmoothing
  IN [smoothedVad |-> sv, hangoverFrames |-> h,
      previousGain |-> VG_Lerp(g.previousGain, target, gainSmoothing),
      targetGain |-> target]

\* computeTargetGain and computeGain of a processor with the default
\* configuration
VG_ComputeTargetGain(sv, h) == VG_TargetGain(DEFAULT_VAD_CONFIG, sv, h)
VG_ComputeGain(g, vadScore) == VG_Gain(DEFAULT_VAD_CONFIG, g, vadScore)

\* applyGainWithBlend, lines 256-270, for sample i of a buffer of len samples
\* (samples in thousandths)
VG_BlendSample(out, original, i, len, startGain, endGain) ==
  LET gain == startGain + ((endGain - startGain) * i) \div len
      blend == (Max2(0, 10000 - gain) * VG_blendRatio) \div 10000
  IN (out * gain) \div 10000 + (((original * blend) \div 10000) * gain) \div 10000

\* ========================================================================
\* AudioTrackDenoiser: one processing session at a time
\* (src/unnamed/part_013:161-407)
\* samples are in thousandths (1000 is 1.0), timestamps in microseconds
\* ========================================================================

\* FADE_IN_SAMPLES, line 51
FADE_IN_SAMPLES == 960

\* the sample rate of the inbound track, for the durations of its frames
TP_SampleRate == 48000

\* the frame sizes a kernel reports when it is initialized
TP_KernelSizes == {400, 480}

\* the new ProcessingState of session id, lines 183-199
TP_NewState_noFade(id, frameSize) ==
  [id |-> id, bufLen |-> frameSize, bufferFrameCount |-> 0, nextTimestamp |-> 0,
   framesReceived |-> 0, framesProcessed |-> 0, framesEnqueued |-> 0,
   fadeInRemaining |-> 0, vadGain |-> VG_InitialState, inSamples |-> 0,
   acceptedSamples |-> 0]
TP_NewState(id, frameSize) ==
  [id |-> id, bufLen |-> frameSize, bufferFrameCount |-> 0, nextTimestamp |-> 0,
   framesReceived |-> 0, framesProcessed |-> 0, framesEnqueued |-> 0,
   fadeInRemaining |-> FADE_IN_SAMPLES, vadGain |-> VG_InitialState,
   inSamples |-> 0,   \* history: the samples its own pipeline re-blocked
   acceptedSamples |-> 0]   \* history: the samples of all frames re-blocked

\* denoiser.isInitialized and denoiser.frameSize, as the session reads them
TD_IsInitialized == td_status = "ready"
TD_FrameSize == IF td_status = "ready" THEN td_kernelSize ELSE DEFAULT_FRAME_SIZE

\* new AudioTrackDenoiser(config) and the synchronous part of
\* initializeDenoiser, lines 66-139: the denoiser exists, not yet initialized
TP_New(type, applyVadGain) ==
  /\ td_status = "none"
  /\ td_status' = "pending"
  /\ td_type' = type
  /\ tp_applyVadGain' = applyVadGain
  /\ tp_lastOp' = "other"
  /\ UNCHANGED <<td_kernelSize, tp_state, tp_sessions, tp_processedTrack,
                 tp_emitted, tp_lastIn, tp_transforms>>

\* denoiser.initialize() resolves, line 142: the kernel reports its frame size
TD_InitOk(kernelSize) ==
  /\ td_status = "pending"
  /\ td_status' = "ready"
  /\ td_kernelSize' = kernelSize
  /\ tp_lastOp' = "other"
  /\ UNCHANGED <<td_type, tp_applyVadGain, tp_state, tp_sessions,
                 tp_processedTrack, tp_emitted, tp_lastIn, tp_transforms>>

\* denoiser.initialize() rejects, line 142
TD_InitFail ==
  /\ td_status = "pending"
  /\ td_status' = "failed"
  /\ tp_lastOp' = "other"
  /\ UNCHANGED <<td_type, td_kernelSize, tp_applyVadGain, tp_state, tp_sessions,
                 tp_processedTrack, tp_emitted, tp_lastIn, tp_transforms>>

\* the sessions after stopProcessing(), lines 212-224: the framesProcessed of
\* the session that state belongs to is logged and its abort signal is set
TP_Aborted(sessions, state) ==
  IF state = <<>> THEN sessions
  ELSE [sessions EXCEPT ![state[1].id].aborted = TRUE,
                        ![state[1].id].logged = state[1].framesProcessed]

\* startProcessing stops the session in progress first, lines 162-165
TP_StopsPrevious_never(state) == FALSE
TP_StopsPrevious(state) == state # <<>>

\* startProcessing(track), lines 161-210; channels is what the track's
\* settings report.  The denoiser is set before the object is handed out, so
\* the throw of lines 167-169 is never taken.
TP_StartProcessing(channels) ==
  /\ td_status # "none"
  /\ Len(tp_sessions) < MaxSessions
  /\ LET stopped == IF TP_StopsPrevious(tp_state)
                      THEN TP_Aborted(tp_sessions, tp_state) ELSE tp_sessions
         id == Len(tp_sessions) + 1
     IN /\ tp_sessions' = Append(stopped,
              [channels |-> channels, aborted |-> FALSE, errored |-> FALSE,
               ended |-> FALSE, late |-> FALSE, logged |-> 0,
               callsAfterStop |-> 0])
        /\ tp_state' = <<TP_NewState(id, TD_FrameSize)>>
        /\ tp_processedTrack' = id
  /\ tp_emitted' = <<>>
  /\ tp_lastIn' = [ts |-> 0, dur |-> 0, n |-> 0]
  /\ tp_lastOp' = "start"
  /\ UNCHANGED <<td_status, td_type, td_kernelSize, tp_applyVadGain,
                 tp_transforms>>

\* stopProcessing(), lines 212-224
TP_StopProcessing ==
  /\ td_status # "none"
  /\ IF tp_state = <<>>
       THEN /\ tp_lastOp' = "stopNoop"
            /\ UNCHANGED <<tp_state, tp_sessions, tp_processedTrack>>
       ELSE /\ tp_sessions' = TP_Aborted(tp_sessions, tp_state)
            /\ tp_state' = <<>>
            /\ tp_processedTrack' = 0
            /\ tp_lastOp' = "stop"
  /\ UNCHANGED <<td_status, td_type, td_kernelSize, tp_applyVadGain,
                 tp_emitted, tp_lastIn, tp_transforms>>

\* the consumer of the processed track ends the generator of the session
TP_GeneratorStop ==
  /\ tp_state # <<>>
  /\ ~tp_sessions[tp_state[1].id].ended
  /\ tp_sessions' = [tp_sessions EXCEPT ![tp_state[1].id].ended = TRUE]
  /\ tp_lastOp' = "other"
  /\ UNCHANGED <<td_status, td_type, td_kernelSize, tp_applyVadGain, tp_state,
                 tp_processedTrack, tp_emitted, tp_lastIn, tp_transforms>>

\* ---- transform and processFrame, lines 269-407 ----
\* A frame is followed through one of its samples: sample i of each block the
\* frame completes, whose inbound value is orig and which the kernel turns
\* into den; the other samples of a block go through the same steps.

\* the samples faded in a block, line 365
TP_FadeCount_whole(frameSize, fadeInRemaining) == frameSize
TP_FadeCount(frameSize, fadeInRemaining) == Min2(frameSize, fadeInRemaining)

\* smoothProgress of sample i, lines 367-369, in thousandths
TP_SmoothProgress(fadeInRemaining, i) ==
  LET progress == 1000 - ((fadeInRemaining - i) * 1000) \div FADE_IN_SAMPLES
  IN (((progress * progress) \div 1000) * (3000 - 2 * progress)) \div 1000

\* outputBuffer[i] after the fade-in, lines 364-374
TP_FadeSample(x, i, frameSize, fadeInRemaining) ==
  IF fadeInRemaining > 0 /\ i < TP_FadeCount(frameSize, fadeInRemaining)
    THEN (x * TP_SmoothProgress(fadeInRemaining, i)) \div 1000
    ELSE x

\* fadeInRemaining after the block, lines 364-374
TP_FadeAfter(frameSize, fadeInRemaining) ==
  IF fadeInRemaining > 0
    THEN fadeInRemaining - TP_FadeCount(frameSize, fadeInRemaining)
    ELSE fadeInRemaining

\* the clamp of lines 376-380
TP_ClampSample(x) == IF x > 1000 THEN 1000 ELSE IF x < -1000 THEN -1000 ELSE x

\* the VAD gain is applied to the block, line 383
TP_UsesVadGain_anyOption(vadScore) == td_type = RNNOISE /\ vadScore > 0
TP_UsesVadGain(vadScore) ==
  tp_applyVadGain /\ td_type = RNNOISE /\ vadScore > 0

\* numberOfFrames of an emitted block, line 400
TP_EmittedSize(frameSize, dataFrames) == frameSize

\* the samples copied into the buffer in one turn of the loop, lines 309-312
TP_CopyCount(frameSize, bufferFrameCount, dataFrames, offset) ==
  Min2(frameSize - bufferFrameCount, dataFrames - offset)

\* processFrame(state, data, controller), lines 348-407, for the state st of a
\* full buffer: the state after it, the frame it enqueued (if any) and how it
\* ended ("run": returned; "stopped": the generator had ended and the session
\* was stopped; "threw": the denoiser rejected the buffer).  data.pipe is the
\* session whose pipeline runs the transform: the frame goes to its controller.
TP_ProcessFrame(st, data, ended) ==
  LET frameSize == TD_FrameSize
      counted == [st EXCEPT !.framesProcessed = @ + 1]
      vadScore == IF td_type = RNNOISE THEN data.vad ELSE 0
      faded == TP_FadeSample(data.den, data.i, frameSize, st.fadeInRemaining)
      clamped == TP_ClampSample(faded)
      gained == VG_ComputeGain(st.vadGain, vadScore)
      out == IF TP_UsesVadGain(vadScore)
               THEN VG_BlendSample(clamped, data.orig, data.i, st.bufLen,
                                   st.vadGain.previousGain, gained.previousGain)
               ELSE clamped
      done == [counted EXCEPT
                 !.fadeInRemaining = TP_FadeAfter(frameSize, @),
                 !.vadGain = IF TP_UsesVadGain(vadScore) THEN gained ELSE @]
  IN IF st.bufLen # frameSize
       THEN [st |-> counted, frames |-> <<>>, outcome |-> "threw"]
     ELSE IF ended
       THEN [st |-> done, frames |-> <<>>, outcome |-> "stopped"]
     ELSE [st |-> [done EXCEPT !.framesEnqueued = @ + 1],
           frames |-> <<[pipe |-> data.pipe, afterStop |-> data.afterStop,
                         n |-> TP_EmittedSize(frameSize, data.n),
                         ts |-> st.nextTimestamp, passthrough |-> FALSE,
                         i |-> data.i, orig |-> data.orig, den |-> data.den,
                         vad |-> vadScore, faded |-> faded,
                         fadeBefore |-> st.fadeInRemaining, sample |-> out]>>,
           outcome |-> "run"]

\* nextTimestamp after a block that ends at offset off of the frame data,
\* line 331
TP_NextTimestamp_frameStart(data, off) == data.ts
TP_NextTimestamp(data, off) == data.ts + (data.dur * off) \div data.n

\* the loop of lines 306-333 from offset on: the state, the frames enqueued
\* and how the loop ended.  The loop works on the state object transform read
\* at line 273: when processFrame has stopped the session (390-393) the loop
\* goes on with that object for the rest of the inbound frame.  stops holds
\* the framesProcessed that stopProcessing logged, once the session is stopped.
RECURSIVE TP_Loop(_, _, _, _, _, _)
TP_Loop(st, offset, frames, data, ended, stops) ==
  IF offset >= data.n
    THEN [st |-> st, frames |-> frames, stops |-> stops,
          outcome |-> IF stops # <<>> THEN "stopped" ELSE "run"]
  ELSE
    LET frameSize == TD_FrameSize
        count == TP_CopyCount(frameSize, st.bufferFrameCount, data.n, offset)
        copied == [st EXCEPT !.bufferFrameCount = @ + count]
        off == offset + count
    IN IF count > st.bufLen - st.bufferFrameCount
         THEN [st |-> st, frames |-> frames, stops |-> stops, outcome |-> "threw"]
       ELSE IF copied.bufferFrameCount # frameSize
         THEN TP_Loop(copied, off, frames, data, ended, stops)
       ELSE
         LET r == TP_ProcessFrame(copied, data, ended)
         IN IF r.outcome = "threw"
              THEN [st |-> r.st, frames |-> frames, stops |-> stops,
                    outcome |-> "threw"]
              ELSE TP_Loop([r.st EXCEPT
                              !.bufferFrameCount = 0,
                              !.nextTimestamp = TP_NextTimestamp(data, off)],
                           off, frames \o r.frames, data, ended,
                           IF r.outcome = "stopped" /\ stops = <<>>
                             THEN <<r.st.framesProcessed>> ELSE stops)

\* transform(data, controller), lines 269-346, run by the pipeline of session
\* pipe for the frame in of its track.  `state` at line 273 is this.state:
\* the state of the session in progress at the time of the call.
TP_RunTransform(in, pipe) ==
  /\ tp_transforms < MaxTransforms
  /\ tp_transforms' = tp_transforms + 1
  /\ LET afterStop == tp_sessions[pipe].aborted
         delivered == IF afterStop
                        THEN [tp_sessions EXCEPT ![pipe].late = TRUE]
                        ELSE tp_sessions
         dur == (in.n * 1000000) \div TP_SampleRate
         ts == IF in.next THEN tp_lastIn.ts + tp_lastIn.dur ELSE tp_lastIn.ts
     IN /\ tp_lastIn' = [ts |-> ts, dur |-> dur, n |-> in.n]
        /\ tp_lastOp' = IF afterStop THEN "lateTransform" ELSE "transform"
        /\ IF tp_state = <<>> \/ ~TD_IsInitialized
             THEN /\ tp_emitted' = Append(tp_emitted,
                        [pipe |-> pipe, afterStop |-> afterStop,
                         n |-> in.n, ts |-> ts, passthrough |-> TRUE,
                         i |-> in.i, orig |-> in.orig, den |-> in.orig,
                         vad |-> 0, faded |-> in.orig,
                         fadeBefore |-> 0, sample |-> in.orig])
                  /\ tp_sessions' = delivered
                  /\ UNCHANGED <<tp_state, tp_processedTrack>>
           ELSE
             LET st == tp_state[1]
                 data == [n |-> in.n, ts |-> ts, dur |-> dur, i |-> in.i,
                          orig |-> in.orig, den |-> in.den, vad |-> in.vad,
                          pipe |-> pipe, afterStop |-> afterStop]
                 received == [st EXCEPT !.framesReceived = @ + 1]
                 counted == [received EXCEPT !.acceptedSamples = @ + in.n]
                 accepted == IF pipe = st.id
                               THEN [counted EXCEPT !.inSamples = @ + in.n]
                               ELSE counted
                 started == IF st.bufferFrameCount = 0
                              THEN [accepted EXCEPT !.nextTimestamp = ts]
                              ELSE accepted
                 r == TP_Loop(started, 0, <<>>, data, tp_sessions[st.id].ended, <<>>)
             IN IF in.channels # 1 \/ in.format # "f32-planar"
                  THEN /\ tp_state' = <<received>>
                       /\ tp_sessions' = [delivered EXCEPT ![pipe].errored = TRUE]
                       /\ UNCHANGED <<tp_emitted, tp_processedTrack>>
                ELSE /\ tp_emitted' = tp_emitted \o r.frames
                     /\ CASE r.outcome = "run" ->
                               /\ tp_state' = <<r.st>>
                               /\ tp_sessions' = delivered
                               /\ UNCHANGED tp_processedTrack
                          [] r.outcome = "stopped" ->
                               /\ tp_state' = <<>>
                               /\ tp_sessions' =
                                    [TP_Aborted(delivered,
                                       <<[r.st EXCEPT
                                            !.framesProcessed = r.stops[1]]>>)
                                     EXCEPT ![st.id].callsAfterStop =
                                       r.st.framesProcessed - r.stops[1]]
                               /\ tp_processedTrack' = 0
                          [] r.outcome = "threw" ->
                               /\ tp_state' = <<r.st>>
                               /\ tp_sessions' =
                                    [delivered EXCEPT ![pipe].errored = TRUE]
                               /\ UNCHANGED tp_processedTrack
  /\ UNCHANGED <<td_status, td_type, td_kernelSize, tp_applyVadGain>>

\* the pipeline of the session in progress hands the next frame of its track
\* to transform, lines 252-256
TP_Transform(in) ==
  /\ tp_state # <<>>
  /\ ~tp_sessions[tp_state[1].id].errored
  /\ TP_RunTransform(in, tp_state[1].id)

\* the pipeline of session k, whose abort signal is set, still hands the one
\* frame it had written to its TransformStream to transform: a pipe that is
\* aborted lets the writes it has made settle before it shuts down
TP_LateTransform(k, in) ==
  /\ k \in 1..Len(tp_sessions)
  /\ tp_sessions[k].aborted
  /\ ~tp_sessions[k].late
  /\ ~tp_sessions[k].errored
  /\ ~tp_sessions[k].ended
  /\ tp_sessions[k].channels = in.channels
  /\ TP_RunTransform(in, k)

\* the frames of the inbound track: sizes, clock, layout, and the sample
\* followed (in.next: the frame starts where the one before it ended)
TP_TimingFrames ==
  {[n |-> f[1], next |-> f[2], channels |-> 1, format |-> "f32-planar",
    i |-> 399, orig |-> 20000, den |-> 1500, vad |-> 10] :
      f \in {<<1000, TRUE>>, <<1000, FALSE>>}}
TP_LayoutFrames ==
  {[n |-> 480, next |-> TRUE, channels |-> f[1], format |-> f[2],
    i |-> 0, orig |-> 500, den |-> 1000, vad |-> 0] :
      f \in {<<2, "f32-planar">>, <<1, "s16">>}}
TP_SampleFrames ==
  {[n |-> 480, next |-> TRUE, channels |-> 1, format |-> "f32-planar",
    i |-> 0, orig |-> 500, den |-> 1000, vad |-> 0]}
TP_Frames == TP_TimingFrames \cup TP_LayoutFrames \cup TP_SampleFrames

\* the frames a pipeline had in flight when its session was stopped
TP_LateFrames == {in \in TP_TimingFrames : in.next}

TP_Init ==
  /\ td_status = "none"
  /\ td_type = RNNOISE
  /\ td_kernelSize = DEFAULT_FRAME_SIZE
  /\ tp_applyVadGain = FALSE
  /\ tp_state = <<>>
  /\ tp_sessions = <<>>
  /\ tp_processedTrack = 0
  /\ tp_emitted = <<>>
  /\ tp_lastIn = [ts |-> 0, dur |-> 0, n |-> 0]
  /\ tp_transforms = 0
  /\ tp_lastOp = "other"

TP_Next ==
  \/ \E type \in {RNNOISE, DEEP_FILTER_NET}, applyVadGain \in BOOLEAN :
       TP_New(type, applyVadGain) /\ UNCHANGED <<wlVars, nlVars, dnVars, taVars, vgVars, vcVars, rgVars, dcVars, gmVars>>
  \/ \E kernelSize \in TP_KernelSizes :
       TD_InitOk(kernelSize) /\ UNCHANGED <<wlVars, nlVars, dnVars, taVars, vgVars, vcVars, rgVars, dcVars, gmVars>>
  \/ TD_InitFail /\ UNCHANGED <<wlVars, nlVars, dnVars, taVars, vgVars, vcVars, rgVars, dcVars, gmVars>>
  \/ \E channels \in {1, 2} :
       TP_StartProcessing(channels) /\ UNCHANGED <<wlVars, nlVars, dnVars, taVars, vgVars, vcVars, rgVars, dcVars, gmVars>>
  \/ TP_StopProcessing /\ UNCHANGED <<wlVars, nlVars, dnVars, taVars, vgVars, vcVars, rgVars, dcVars, gmVars>>
  \/ TP_GeneratorStop /\ UNCHANGED <<wlVars, nlVars, dnVars, taVars, vgVars, vcVars, rgVars, dcVars, gmVars>>
  \/ \E in \in TP_Frames :
       TP_Transform(in) /\ UNCHANGED <<wlVars, nlVars, dnVars, taVars, vgVars, vcVars, rgVars, dcVars, gmVars>>
  \/ \E k \in 1..MaxSessions, in \in TP_LateFrames :
       TP_LateTransform(k, in)
         /\ UNCHANGED <<wlVars, nlVars, dnVars, taVars, vgVars, vcVars, rgVars, dcVars, gmVars>>

\* ========================================================================
\* VadGainProcessor fed with scores (src/src/utils/denoise/WasmLoader.ts:174-203)
\* ========================================================================

\* the scores fed to computeGain, in thousandths
VG_Scores == {0, 200, 1000}

\* computeGain(vadScore), lines 174-203
VG_ComputeGainCall(vadScore) ==
  /\ vg_calls < MaxGainCalls
  /\ vg_calls = 0 \/ vadScore = vg_score \/ vg_changes < MaxScoreChanges
  /\ vg_state' = VG_ComputeGain(vg_state, vadScore)
  /\ vg_ret' = vg_state'.previousGain
  /\ vg_score' = vadScore
  /\ vg_calls' = vg_calls + 1
  /\ vg_changes' = IF vg_calls = 0 \/ vadScore = vg_score
                     THEN vg_changes ELSE vg_changes + 1

VG_Init ==
  /\ vg_state = VG_InitialState
  /\ vg_ret = 10000
  /\ vg_score = 0
  /\ vg_calls = 0
  /\ vg_changes = 0

VG_Next ==
  \E vadScore \in VG_Scores :
    VG_ComputeGainCall(vadScore)
      /\ UNCHANGED <<wlVars, nlVars, dnVars, taVars, tpVars, vcVars, rgVars, dcVars, gmVars>>

\* ========================================================================
\* VadGainProcessor configured and reset
\* (src/src/utils/denoise/WasmLoader.ts:174-203, 291-307)
\* ========================================================================

\* the partial configurations passed to configure(); every scalar is within
\* [0, 1] (0..10000 here) and hangoverFrames is not negative
VC_Partials ==
  { [minGateGain |-> 5000],
    [minGateGain |-> 8000, hangoverFrames |-> 2, hangoverFadeStart |-> 0,
     vadThreshold |-> 1000, vadSmoothingFactor |-> 10000] }

\* { ...this.config, ...config }, line 306
VC_Merge(config, partial) ==
  [f \in DOMAIN config |->
     IF f \in DOMAIN partial THEN partial[f] ELSE config[f]]

\* computeGain(vadScore), lines 174-203
VC_ComputeGain(vadScore) ==
  /\ vc_ops < MaxGainOps
  /\ vc_ops' = vc_ops + 1
  /\ vc_lastOp' = "computeGain"
  /\ vc_state' = VG_Gain(vc_config, vc_state, vadScore)
  /\ UNCHANGED vc_config

\* configure(config), lines 305-307
VC_Configure(partial) ==
  /\ vc_ops < MaxGainOps
  /\ vc_ops' = vc_ops + 1
  /\ vc_lastOp' = "configure"
  /\ vc_config' = VC_Merge(vc_config, partial)
  /\ UNCHANGED vc_state

\* reset(), lines 298-300
VC_Reset ==
  /\ vc_ops < MaxGainOps
  /\ vc_ops' = vc_ops + 1
  /\ vc_lastOp' = "reset"
  /\ vc_state' = VG_InitialState
  /\ UNCHANGED vc_config

VC_Init ==
  /\ vc_config = DEFAULT_VAD_CONFIG
  /\ vc_state = VG_InitialState
  /\ vc_ops = 0
  /\ vc_lastOp = "none"

VC_Next ==
  \/ \E vadScore \in {0, 1000} :
       VC_ComputeGain(vadScore)
         /\ UNCHANGED <<wlVars, nlVars, dnVars, taVars, tpVars, vgVars, rgVars, dcVars, gmVars>>
  \/ \E partial \in VC_Partials :
       VC_Configure(partial)
         /\ UNCHANGED <<wlVars, nlVars, dnVars, taVars, tpVars, vgVars, rgVars, dcVars, gmVars>>
  \/ VC_Reset /\ UNCHANGED <<wlVars, nlVars, dnVars, taVars, tpVars, vgVars, rgVars, dcVars, gmVars>>

\* ========================================================================
\* DenoiserRegistry and the built-in registrations
\* (src/src/utils/denoise/DenoiserRegistry.ts:20-138,
\*  src/src/utils/denoise/DenoiserFactory.ts:24-50)
\* configurations are functions from key to value; attenLimit is in dB,
\* postFilterBeta in hundredths
\* ========================================================================

\* DEFAULT_ATTEN_LIMIT and DEFAULT_POST_FILTER_BETA, part_012:37 and 42
DEFAULT_ATTEN_LIMIT == 18
DEFAULT_POST_FILTER_BETA == 3

\* { ...under, ...over }
Spread(under, over) ==
  [k \in DOMAIN under \cup DOMAIN over |->
     IF k \in DOMAIN over THEN over[k] ELSE under[k]]

\* the empty object {}
EmptyConfig == [k \in {} |-> 0]

\* registerBuiltinDenoisers, DenoiserFactory.ts:24-47: what the registry holds
\* once the factory module is loaded
RG_Builtin ==
  << [type |-> RNNOISE, supported |-> TRUE,
      defaultConfig |-> [preferSimd |-> 1]],
     [type |-> DEEP_FILTER_NET, supported |-> TRUE,
      defaultConfig |-> [attenLimit |-> 80, postFilterBeta |-> 0]] >>

\* the position of type among the registrations regs, 0 if it has none
RG_Index(regs, type) ==
  IF \E k \in 1..Len(regs) : regs[k].type = type
    THEN CHOOSE k \in 1..Len(regs) : regs[k].type = type
    ELSE 0

\* registrations.set(type, registration), line 34: an existing key keeps its
\* place
RG_Set(regs, reg) ==
  IF RG_Index(regs, reg.type) # 0
    THEN [regs EXCEPT ![RG_Index(regs, reg.type)] = reg]
    ELSE Append(regs, reg)

\* has(type), lines 76-78
RG_Has(regs, type) == RG_Index(regs, type) # 0

\* isSupported(type), lines 83-85
RG_IsSupported_registered(regs, type) == RG_Has(regs, type)
RG_IsSupported(regs, type) ==
  RG_Has(regs, type) /\ regs[RG_Index(regs, type)].supported

\* getSupportedTypes(), lines 97-101
RG_SupportedTypes(regs) ==
  LET kept == SelectSeq(regs, LAMBDA reg : reg.supported)
  IN [k \in 1..Len(kept) |-> kept[k].type]

\* the first type of priority that is supported, "none" if there is none:
\* the loop of lines 127-131
RECURSIVE RG_FirstSupported(_, _)
RG_FirstSupported(regs, priority) ==
  IF priority = <<>> THEN "none"
  ELSE IF RG_IsSupported(regs, Head(priority)) THEN Head(priority)
  ELSE RG_FirstSupported(regs, Tail(priority))

\* defaultPriority, lines 122-125
RG_DefaultPriority == <<DEEP_FILTER_NET, RNNOISE>>

\* getBestAvailable(priority), lines 121-135 ("none" is null)
RG_BestAvailable(regs, priority) ==
  LET listed == RG_FirstSupported(regs, priority)
      supported == RG_SupportedTypes(regs)
  IN IF listed # "none" THEN listed
     ELSE IF Len(supported) > 0 THEN supported[1]
     ELSE "none"

\* mergedConfig, line 67
RG_MergedConfig_defaultsWin(defaultConfig, config) == Spread(config, defaultConfig)
RG_MergedConfig(defaultConfig, config) == Spread(defaultConfig, config)

\* this.config of the processor the registered factory builds from config:
\* DeepFilterNetProcessor's constructor, part_012:180-186; RNNoiseProcessor
\* keeps what it is given
RG_ProcessorConfig(type, config) ==
  IF type = DEEP_FILTER_NET
    THEN Spread([attenLimit |-> DEFAULT_ATTEN_LIMIT,
                 postFilterBeta |-> DEFAULT_POST_FILTER_BETA], config)
    ELSE config

\* doInitialize, part_012:207-226: the limit given to df_create, the beta in
\* effect, and whether df_set_post_filter_beta is called
DF_CreateAttenLimit(config) == config.attenLimit
DF_EffectivePostFilterBeta(config) == config.postFilterBeta
DF_PostFilterEnabled(config) == DF_EffectivePostFilterBeta(config) > 0

RG_NoResult ==
  [op |-> "none", type |-> "none", supplied |-> EmptyConfig, kind |-> "none",
   passed |-> EmptyConfig, config |-> EmptyConfig, priority |-> <<>>]

\* register(registration), lines 27-37
RG_Register(reg) ==
  /\ rg_ops < MaxRegistryOps
  /\ rg_ops' = rg_ops + 1
  /\ rg_registrations' = RG_Set(rg_registrations, reg)
  /\ rg_result' = [RG_NoResult EXCEPT !.op = "register", !.type = reg.type]
  /\ UNCHANGED rg_factoryCalls

\* unregister(type), lines 42-48
RG_Unregister(type) ==
  /\ rg_ops < MaxRegistryOps
  /\ rg_ops' = rg_ops + 1
  /\ rg_registrations' = SelectSeq(rg_registrations, LAMBDA reg : reg.type # type)
  /\ rg_result' = [RG_NoResult EXCEPT !.op = "unregister", !.type = type]
  /\ UNCHANGED rg_factoryCalls

\* clear(), lines 113-116
RG_Clear ==
  /\ rg_ops < MaxRegistryOps
  /\ rg_ops' = rg_ops + 1
  /\ rg_registrations' = <<>>
  /\ rg_result' = [RG_NoResult EXCEPT !.op = "clear"]
  /\ UNCHANGED rg_factoryCalls

\* create(type, config), lines 52-71 (createDenoiser, DenoiserFactory.ts:70-75)
RG_Create(type, config) ==
  /\ rg_ops < MaxRegistryOps
  /\ rg_ops' = rg_ops + 1
  /\ UNCHANGED rg_registrations
  /\ LET called == [RG_NoResult EXCEPT !.op = "create", !.type = type,
                                       !.supplied = config]
         k == RG_Index(rg_registrations, type)
     IN IF k = 0
          THEN /\ rg_result' = [called EXCEPT !.kind = "unknownType"]
               /\ UNCHANGED rg_factoryCalls
        ELSE IF ~rg_registrations[k].supported
          THEN /\ rg_result' = [called EXCEPT !.kind = "unsupported"]
               /\ UNCHANGED rg_factoryCalls
        ELSE LET merged == RG_MergedConfig(rg_registrations[k].defaultConfig, config)
             IN /\ rg_result' = [called EXCEPT
                                   !.kind = "instance",
                                   !.passed = merged,
                                   !.config = RG_ProcessorConfig(type, merged)]
                /\ rg_factoryCalls' = rg_factoryCalls + 1

\* getBestAvailable(priority), lines 121-135
RG_GetBestAvailable(priority) ==
  /\ rg_ops < MaxRegistryOps
  /\ rg_ops' = rg_ops + 1
  /\ rg_result' = [RG_NoResult EXCEPT
                     !.op = "getBestAvailable", !.priority = priority,
                     !.type = RG_BestAvailable(rg_registrations, priority)]
  /\ UNCHANGED <<rg_registrations, rg_factoryCalls>>

\* the registrations passed to register()
RG_Registrations ==
  {[type |-> t, supported |-> b, defaultConfig |-> d] :
     t \in {RNNOISE, DEEP_FILTER_NET}, b \in BOOLEAN,
     d \in {EmptyConfig, [attenLimit |-> 30, debug |-> 1]}}

\* the configurations passed to create()
RG_Configs ==
  {EmptyConfig, [wasmBasePath |-> 1], [attenLimit |-> 40]}

\* the priority lists passed to getBestAvailable(); the first is the list
\* used when none is passed
RG_Priorities ==
  {RG_DefaultPriority, <<>>, <<RNNOISE>>, <<DEEP_FILTER_NET>>,
   <<RNNOISE, DEEP_FILTER_NET>>}

RG_Init ==
  /\ rg_registrations = RG_Builtin
  /\ rg_result = RG_NoResult
  /\ rg_factoryCalls = 0
  /\ rg_ops = 0

RG_Next ==
  \/ \E reg \in RG_Registrations :
       RG_Register(reg)
         /\ UNCHANGED <<wlVars, nlVars, dnVars, taVars, tpVars, vgVars, vcVars, dcVars, gmVars>>
  \/ \E type \in {RNNOISE, DEEP_FILTER_NET} :
       RG_Unregister(type)
         /\ UNCHANGED <<wlVars, nlVars, dnVars, taVars, tpVars, vgVars, vcVars, dcVars, gmVars>>
  \/ RG_Clear /\ UNCHANGED <<wlVars, nlVars, dnVars, taVars, tpVars, vgVars, vcVars, dcVars, gmVars>>
  \/ \E type \in {RNNOISE, DEEP_FILTER_NET}, config \in RG_Configs :
       RG_Create(type, config)
         /\ UNCHANGED <<wlVars, nlVars, dnVars, taVars, tpVars, vgVars, vcVars, dcVars, gmVars>>
  \/ \E priority \in RG_Priorities :
       RG_GetBestAvailable(priority)
         /\ UNCHANGED <<wlVars, nlVars, dnVars, taVars, tpVars, vgVars, vcVars, dcVars, gmVars>>

\* ========================================================================
\* DeepFilterNetProcessor.configure (src/unnamed/part_012:283-314), with
\* initialize() and destroy() of the same instance
\* (src/src/utils/denoise/logger.ts:199-222, 243-251; part_012:193-228, 273-276)
\* ========================================================================

\* the arguments of configure(): each value may be named or not
DC_Partials ==
  { EmptyConfig,
    [attenLimit |-> 30],
    [postFilterBeta |-> 0],
    [postFilterBeta |-> 5],
    [attenLimit |-> 30, postFilterBeta |-> 5] }

\* a call that has not been made
DC_NoCall == [op |-> "none", partial |-> EmptyConfig, threw |-> FALSE,
              initialized |-> FALSE]

\* the guard of both setters, lines 296 and 308
DC_NotInitialized_never == FALSE

DC_NotInitialized == ~dc_isInitialized \/ ~dc_wasm

\* setAttenLimit(limDb), lines 295-302, on the instance st = config, kernel
\* and whether a setter has thrown
DC_SetAttenLimit(st, limDb) ==
  IF st.threw THEN st
  ELSE IF DC_NotInitialized THEN [st EXCEPT !.threw = TRUE]
  ELSE [st EXCEPT
          !.kernel = IF dc_context \in DOMAIN st.kernel
                       THEN [st.kernel EXCEPT ![dc_context].attenLim = limDb]
                       ELSE st.kernel,
          !.config = [st.config EXCEPT !.attenLimit = limDb]]

\* setPostFilterBeta(beta), lines 307-314
DC_SetPostFilterBeta(st, beta) ==
  IF st.threw THEN st
  ELSE IF DC_NotInitialized THEN [st EXCEPT !.threw = TRUE]
  ELSE [st EXCEPT
          !.kernel = IF dc_context \in DOMAIN st.kernel
                       THEN [st.kernel EXCEPT ![dc_context].beta = beta]
                       ELSE st.kernel,
          !.config = [st.config EXCEPT !.postFilterBeta = beta]]

\* the body of configure(config), lines 283-290
DC_Configured(partial) ==
  LET st0 == [config |-> dc_config, kernel |-> dc_kernel, threw |-> FALSE]
      st1 == IF "attenLimit" \in DOMAIN partial
               THEN DC_SetAttenLimit(st0, partial.attenLimit) ELSE st0
  IN  IF "postFilterBeta" \in DOMAIN partial
        THEN DC_SetPostFilterBeta(st1, partial.postFilterBeta) ELSE st1

\* configure(config), lines 283-290
DC_Configure(partial) ==
  /\ dc_ops < MaxConfigOps
  /\ dc_ops' = dc_ops + 1
  /\ dc_config' = DC_Configured(partial).config
  /\ dc_kernel' = DC_Configured(partial).kernel
  /\ dc_call' = [op |-> "configure", partial |-> partial,
                 threw |-> DC_Configured(partial).threw,
                 initialized |-> dc_isInitialized]
  /\ UNCHANGED <<dc_isInitialized, dc_wasm, dc_context, dc_pendingInits>>

\* initialize() up to the await of the loader, logger.ts:199-209 and
\* part_012:193-194; a warning and nothing else when already initialized
DC_InitializeCall ==
  /\ dc_ops < MaxConfigOps
  /\ dc_ops' = dc_ops + 1
  /\ dc_pendingInits' = IF dc_isInitialized THEN dc_pendingInits
                        ELSE dc_pendingInits + 1
  /\ dc_call' = [op |-> "initialize", partial |-> EmptyConfig, threw |-> FALSE,
                 initialized |-> dc_isInitialized]
  /\ UNCHANGED <<dc_isInitialized, dc_wasm, dc_context, dc_config, dc_kernel>>

\* the rest of doInitialize() and initialize(), part_012:196-227 and
\* logger.ts:210-221. outcome "loader": the loader or wasm_bindgen failed;
\* "create": df_create returned no context; "ok": the context exists, with
\* the stored limit, and the stored beta if it is positive
DC_InitLoaded(outcome) ==
  /\ dc_pendingInits > 0
  /\ dc_pendingInits' = dc_pendingInits - 1
  /\ dc_call' = [op |-> "initialized", partial |-> EmptyConfig,
                 threw |-> outcome # "ok", initialized |-> dc_isInitialized]
  /\ dc_isInitialized' = (outcome = "ok")
  /\ dc_wasm' = (IF outcome = "loader" THEN dc_wasm ELSE TRUE)
  /\ dc_context' = (IF outcome = "loader" THEN dc_context
                    ELSE IF outcome = "create" THEN 0
                    ELSE Len(dc_kernel) + 1)
  /\ dc_kernel' = (IF outcome = "ok"
                     THEN Append(dc_kernel,
                            [attenLim |-> DF_CreateAttenLimit(dc_config),
                             beta |-> IF DF_PostFilterEnabled(dc_config)
                                        THEN DF_EffectivePostFilterBeta(dc_config)
                                        ELSE 0])
                     ELSE dc_kernel)
  /\ UNCHANGED <<dc_config, dc_ops>>

\* destroy(), logger.ts:243-251 and part_012:273-276: nothing unless
\* initialized
DC_Destroy ==
  /\ dc_ops < MaxConfigOps
  /\ dc_ops' = dc_ops + 1
  /\ dc_call' = [op |-> "destroy", partial |-> EmptyConfig, threw |-> FALSE,
                 initialized |-> dc_isInitialized]
  /\ dc_isInitialized' = FALSE
  /\ dc_wasm' = (IF dc_isInitialized THEN FALSE ELSE dc_wasm)
  /\ dc_context' = (IF dc_isInitialized THEN 0 ELSE dc_context)
  /\ UNCHANGED <<dc_config, dc_kernel, dc_pendingInits>>

\* the instance after construction with no options, part_012:176-186
DC_Init ==
  /\ dc_isInitialized = FALSE
  /\ dc_wasm = FALSE
  /\ dc_context = 0
  /\ dc_config = RG_ProcessorConfig(DEEP_FILTER_NET, EmptyConfig)
  /\ dc_kernel = << >>
  /\ dc_pendingInits = 0
  /\ dc_ops = 0
  /\ dc_call = DC_NoCall

DC_Next ==
  \/ \E partial \in DC_Partials :
       DC_Configure(partial)
         /\ UNCHANGED <<wlVars, nlVars, dnVars, taVars, tpVars, vgVars, vcVars, rgVars, gmVars>>
  \/ DC_InitializeCall
         /\ UNCHANGED <<wlVars, nlVars, dnVars, taVars, tpVars, vgVars, vcVars, rgVars, gmVars>>
  \/ \E outcome \in {"loader", "create", "ok"} :
       DC_InitLoaded(outcome)
         /\ UNCHANGED <<wlVars, nlVars, dnVars, taVars, tpVars, vgVars, vcVars, rgVars, gmVars>>
  \/ DC_Destroy
         /\ UNCHANGED <<wlVars, nlVars, dnVars, taVars, tpVars, vgVars, vcVars, rgVars, gmVars>>

\* ========================================================================
\* greatestCommonDivisor and leastCommonMultiple
\* (src/src/utils/denoise/math.ts:8-28)
\* ========================================================================

\* a number, or NaN
GM_Number(v) == [nan |-> FALSE, value |-> v]
GM_NaN == [nan |-> TRUE, value |-> 0]

\* x / y of two integers where the quotient is an integer; 0 / 0 is NaN
\* (a positive x is never divided by 0 here: the divisor is 0 for 0, 0 only)
GM_Divide(x, y) == IF y = 0 THEN GM_NaN ELSE GM_Number(x \div y)

\* a call of either function with non-negative integers: lines 9-10, and
\* line 27 up to the call of greatestCommonDivisor
GM_Call(fn, num1, num2) ==
  /\ gm_pc \in {"idle", "done"}
  /\ gm_fn' = fn
  /\ gm_num1' = num1
  /\ gm_num2' = num2
  /\ gm_a' = num1
  /\ gm_b' = num2
  /\ gm_pc' = "loop"
  /\ gm_result' = GM_Number(0)
  /\ gm_tick' = 0

\* the while test, line 12
GM_LoopTest == gm_a # gm_b

\* one iteration of the loop, lines 12-18
GM_Iterate ==
  /\ gm_pc = "loop"
  /\ GM_LoopTest
  /\ IF gm_a > gm_b
       THEN gm_a' = gm_a - gm_b /\ gm_b' = gm_b
       ELSE gm_b' = gm_b - gm_a /\ gm_a' = gm_a
  /\ gm_tick' = 1 - gm_tick
  /\ UNCHANGED <<gm_fn, gm_num1, gm_num2, gm_pc, gm_result>>

\* the loop ends and the function returns: line 20, and line 27 for
\* leastCommonMultiple
GM_Return ==
  /\ gm_pc = "loop"
  /\ ~GM_LoopTest
  /\ gm_pc' = "done"
  /\ gm_result' = IF gm_fn = "lcm"
                    THEN GM_Divide(gm_num1 * gm_num2, gm_b)
                    ELSE GM_Number(gm_b)
  /\ UNCHANGED <<gm_fn, gm_num1, gm_num2, gm_a, gm_b, gm_tick>>

GM_Init ==
  /\ gm_fn = "none"
  /\ gm_num1 = 0
  /\ gm_num2 = 0
  /\ gm_a = 0
  /\ gm_b = 0
  /\ gm_pc = "idle"
  /\ gm_result = GM_Number(0)
  /\ gm_tick = 0

GM_Next ==
  \/ \E fn \in {"gcd", "lcm"}, num1 \in 0..MaxOperand, num2 \in 0..MaxOperand :
       GM_Call(fn, num1, num2)
         /\ UNCHANGED <<wlVars, nlVars, dnVars, taVars, tpVars, vgVars, vcVars, rgVars, dcVars>>
  \/ GM_Iterate
         /\ UNCHANGED <<wlVars, nlVars, dnVars, taVars, tpVars, vgVars, vcVars, rgVars, dcVars>>
  \/ GM_Return
         /\ UNCHANGED <<wlVars, nlVars, dnVars, taVars, tpVars, vgVars, vcVars, rgVars, dcVars>>

\* ========================================================================
\* Specifications
\* ========================================================================
Init == WL_Init /\ NL_Init /\ DN_Init /\ TA_Init /\ TP_Init /\ VG_Init /\ VC_Init
          /\ RG_Init /\ DC_Init /\ GM_Init

\* the generic loader alone (the loader of the spectral denoiser)
InitLoader == Init /\ dn_type = RNNOISE
SpecLoader == InitLoader /\ [][WL_Next]_vars

\* the loader of the neural denoiser alone
InitNeural == Init /\ dn_type = DEEP_FILTER_NET
SpecNeural == InitNeural /\ [][NL_Next]_vars

\* one denoiser instance, of either type
SpecDenoiser == Init /\ [][DN_Next]_vars

\* the singleton of AudioTrackDenoiser (with the default, neural, denoiser)
SpecCreate == InitNeural /\ [][TA_Next]_vars

\* one AudioTrackDenoiser, its denoiser and its processing sessions
SpecTrack == InitNeural /\ [][TP_Next]_vars

\* one VadGainProcessor with the default configuration
SpecGain == InitNeural /\ [][VG_Next]_vars

\* one VadGainProcessor that is configured and reset between calls
SpecGainConfig == InitNeural /\ [][VC_Next]_vars

\* the registry, once the factory module has registered the built-in denoisers
SpecRegistry == InitNeural /\ [][RG_Next]_vars

\* one neural denoiser that is configured at run time
SpecConfigure == InitNeural /\ [][DC_Next]_vars

\* calls of greatestCommonDivisor and leastCommonMultiple; a call that has
\* started keeps running: its loop and its return are weakly fair
SpecMath == InitNeural /\ [][GM_Next]_vars
GM_Running ==
  (GM_Iterate \/ GM_Return)
    /\ UNCHANGED <<wlVars, nlVars, dnVars, taVars, tpVars, vgVars, vcVars, rgVars, dcVars>>
SpecMathFair == SpecMath /\ WF_vars(GM_Running)

\* ========================================================================
\* Claims about WasmLoader (checked under SpecLoader)
\* ========================================================================

WL_NoFailure == \A k \in 1..Len(wl_promises) : wl_promises[k].state # "rejected"

\* the step is a load() call
WL_LoadStep == Len(wl_calls') = Len(wl_calls) + 1

\* the step is the failure of load attempt k
WL_RejectStep(k) ==
  /\ k <= Len(wl_promises)
  /\ wl_promises[k].state = "pending"
  /\ wl_promises'[k].state = "rejected"

\* C1: while reset() has not been called and no load attempt has failed,
\* any number of load() calls, concurrent or sequential, have invoked the
\* load function exactly once, every call is bound to that one attempt and
\* every call that has resolved resolved to that attempt's module.
C1_SingleFlight ==
  (~wl_resetCalled /\ WL_NoFailure) =>
    /\ wl_loadFnCalls = (IF Len(wl_calls) = 0 THEN 0 ELSE 1)
    /\ \A c \in 1..Len(wl_calls) :
         /\ WL_Outcome(c).state # "rejected"
         /\ wl_calls[c].kind = "promise" => wl_calls[c].promise = 1
         /\ WL_Outcome(c).state = "fulfilled" =>
              /\ wl_promises[1].state = "fulfilled"
              /\ WL_Outcome(c).value = wl_promises[1].value

\* C1 witness: three calls, one that started the load, one that joined it
\* while in flight and one made after it resolved, all resolved, one loadFn call
C1_Witness ==
  /\ ~wl_resetCalled /\ WL_NoFailure
  /\ Len(wl_calls) >= 3
  /\ wl_loadFnCalls = 1
  /\ \E c \in 2..Len(wl_calls) : wl_calls[c].kind = "promise"
  /\ \E c \in 2..Len(wl_calls) : wl_calls[c].kind = "cached"
  /\ \A c \in 1..Len(wl_calls) : WL_Outcome(c).state = "fulfilled"

C3_LoadedLeftOnlyByReset ==
  [][ wl_status = LOADED =>
        \/ wl_status' = LOADED /\ wl_module' = wl_module
        \/ wl_lastOp' = "reset" /\ wl_status' = NOT_LOADED ]_vars

\* C4: reset() while the status is LOADING leaves the status LOADING and the
\* in-flight promise in place; in any other status it sets NOT_LOADED and
\* drops the cached module.
C4_ResetNotDuringLoading ==
  [][ wl_lastOp' = "reset" =>
        IF wl_status = LOADING
          THEN wl_status' = LOADING /\ wl_loadPromise' = wl_loadPromise
          ELSE wl_status' = NOT_LOADED /\ wl_module' = 0 ]_vars

\* ========================================================================
\* Claims about DeepFilterNetLoader (checked under SpecNeural)
\* ========================================================================

\* caller c's loadWasmData() has settled
NL_Settled(c) == nl_callers[c].pc \in {"returned", "threw"}

\* C5: a caller that requested the load while a set of fetches was in flight
\* receives the outcome of that same set: its data on success, its error on
\* failure (stated for runs in which the loader was not reset meanwhile).
C5_WaitersShareOutcome ==
  ~nl_resetSeen =>
    \A c \in 1..NumCallers :
      (NL_Settled(c) /\ nl_callers[c].joined # 0) =>
          nl_callers[c].result = nl_callers[c].joined

\* every call made so far was made while the first set of fetches was in flight
NL_AllConcurrent ==
  \A c \in 1..NumCallers :
    nl_callers[c].pc # "idle" =>
      (nl_fetches[1].by = c \/ nl_callers[c].joined = 1)

\* C6: when the denoisers share one base path (no reset after the first
\* fetch began) and their initialize() calls run concurrently, one set of
\* network fetches is performed and every initialize() that got data got the
\* data of that set.
C6_OneFetchSet ==
  (~nl_resetSeen /\ NL_AllConcurrent) =>
    /\ Len(nl_fetches) <= 1
    /\ \A c \in 1..NumCallers :
         nl_callers[c].pc = "returned" => nl_callers[c].result = 1

\* C7: a load that returns while the key is the one it was called under
\* returns data fetched under that key, never data fetched under an earlier
\* key, whatever was in flight when the key changed.
C7_KeyChangeInvalidates ==
  [][ \A c \in 1..NumCallers :
        ( /\ nl_callers[c].pc # "returned"
          /\ nl_callers'[c].pc = "returned"
          /\ nl_callers'[c].keyAtCall = NL_GetBasePath )
        => nl_fetches'[nl_callers'[c].result].basePath = NL_GetBasePath ]_vars

\* the blob begins with the gzip magic bytes 0x1F 0x8B
C8_StartsWithMagic(blob) == Len(blob) >= 2 /\ blob[1] = 31 /\ blob[2] = 139

\* the step is the failure of set k of fetches
NL_FailStep(k) ==
  /\ k <= Len(nl_fetches)
  /\ nl_fetches[k].state = "inflight"
  /\ nl_fetches'[k].state = "failed"

\* C8: a cached model blob always begins with 0x1F 0x8B: a fetched payload
\* that begins with the magic is cached as it is, any other (also one shorter
\* than two bytes) is cached re-gzipped; and a load that fails, at a fetch or
\* at the re-compression, caches nothing and leaves the loading flag cleared.
C8_GzipCorrection ==
  /\ [](nl_wasmData.fetch # 0 =>
          /\ C8_StartsWithMagic(nl_wasmData.modelData)
          /\ C8_StartsWithMagic(nl_wasmData.payload) =>
                nl_wasmData.modelData = nl_wasmData.payload
          /\ ~C8_StartsWithMagic(nl_wasmData.payload) =>
                /\ nl_wasmData.modelData = NL_GzipSync(nl_wasmData.payload)
                /\ nl_wasmData.modelData # nl_wasmData.payload)
  /\ [][ \A k \in 1..NumCallers :
           NL_FailStep(k) => (nl_wasmData' = nl_wasmData /\ ~nl_isLoading') ]_vars

\* C8 witness: one load failed, and a payload of one byte was cached re-gzipped
C8_Witness ==
  /\ nl_wasmData.fetch # 0
  /\ Len(nl_wasmData.payload) = 1
  /\ C8_StartsWithMagic(nl_wasmData.modelData)
  /\ \E k \in 1..Len(nl_fetches) : nl_fetches[k].state = "failed"
  /\ ~nl_isLoading

\* ========================================================================
\* Claims about AudioDenoiserBase.processFrame
\* (scores and gains are in thousandths: 1000 is 1.0)
\* ========================================================================

\* the step is a call of processFrame()
DN_ProcessStep == dn_pfCalls' = dn_pfCalls + 1

\* C9: processFrame() on an instance that is not initialized (never
\* initialized, initialization failed, or destroyed), or with a frame whose
\* length differs from frameSize, throws; the kernel hook is not invoked, and
\* the last VAD score, the frame counter, the smoothing state and the caller's
\* frame stay as they were.
C9_ProcessFrameRejects ==
  [][ (DN_ProcessStep /\ (~dn_isInitialized \/ Len(dn_frame) # dn_frameSize))
        => /\ dn_ret' = DN_Threw
           /\ dn_hookCalls' = dn_hookCalls
           /\ dn_lastVadScore' = dn_lastVadScore
           /\ dn_frameCount' = dn_frameCount
           /\ dn_smoothedGain' = dn_smoothedGain
           /\ dn_prevVadScore' = dn_prevVadScore
           /\ dn_frame' = dn_frame ]_vars

\* C9 witness: after one processed frame, an initialized instance rejected a
\* frame one sample short, and the score of the processed frame is still there
C9_Witness ==
  /\ dn_isInitialized
  /\ Len(dn_frame) = dn_frameSize - 1
  /\ dn_ret = DN_Threw
  /\ dn_pfCalls = 2
  /\ dn_hookCalls = 1
  /\ dn_lastVadScore = 400

\* C10: processFrame() on an initialized instance with a frame of frameSize
\* samples returns a score in [0, 1], 0 for the neural denoiser and the
\* kernel's VAD for the spectral one, and getLastVadScore() is that score; no
\* other step changes getLastVadScore(), so it is always the score returned by
\* the most recent successful processFrame().
C10_VadScore ==
  [][ /\ (DN_ProcessStep /\ dn_isInitialized /\ Len(dn_frame) = dn_frameSize)
          => /\ dn_ret'.kind = "value"
             /\ dn_ret'.value \in 0..1000
             /\ dn_type = DEEP_FILTER_NET => dn_ret'.value = 0
             /\ dn_type = RNNOISE => dn_ret'.value = dn_kernelVad'
             /\ dn_lastVadScore' = dn_ret'.value
      /\ dn_lastVadScore' # dn_lastVadScore
          => (DN_ProcessStep /\ dn_ret'.kind = "value") ]_vars

\* C10 witness: the spectral denoiser processed two frames, the second with a
\* kernel VAD of 0.1, which is what getLastVadScore() gives
C10_Witness ==
  /\ dn_type = RNNOISE
  /\ dn_hookCalls = 2
  /\ dn_ret = DN_Returned(100)
  /\ dn_kernelVad = 100
  /\ dn_lastVadScore = 100

\* ========================================================================
\* Claims about the life cycle of a denoiser (checked under SpecDenoiser)
\* ========================================================================

\* the kernel handles the instance holds
DN_Held == {dn_context, dn_inBuf, dn_outBuf} \ {0}

\* C11: after a destroy() call, whatever came before it, the instance is not
\* initialized and holds no kernel context and no scratch buffer, the
\* spectral kernel's heap has nothing of the instance left allocated, and no
\* handle was ever released twice; this covers the second destroy(), which
\* returns without doing anything.
C11_DestroyIdempotent ==
  dn_lastOp = "destroy" =>
    /\ ~dn_isInitialized
    /\ DN_Held = {}
    /\ dn_type = RNNOISE => k_live = {}
    /\ ~k_doubleFree

\* the step is an initialize() call
DN_InitCallStep == dn_initCalls' = dn_initCalls + 1

\* C12: initialize() called on an initialized instance does nothing: no
\* doInitialize() is started, and the module, the kernel context, the scratch
\* buffers, the frame size, the smoothing state and the kernel heap stay as
\* they were.
C12_InitializeTwiceNoop ==
  [][ (DN_InitCallStep /\ dn_isInitialized)
        => /\ dn_pendingInits' = dn_pendingInits
           /\ UNCHANGED <<dn_isInitialized, dn_module, dn_context, dn_inBuf,
                          dn_outBuf, dn_frameSize, dn_smoothedGain,
                          dn_prevVadScore, dn_frameCount, k_live>> ]_vars

\* C12 witness: a second initialize() was made after a frame was processed
\* and nothing is pending; the frame counter and the smoothed gain of that
\* frame are still there
C12_Witness ==
  /\ dn_type = RNNOISE
  /\ dn_isInitialized
  /\ dn_initCalls = 2
  /\ dn_pendingInits = 0
  /\ dn_frameCount = 1
  /\ dn_smoothedGain < 1000
  /\ Cardinality(k_live) = 3

\* the step is the end of an initialize() that had awaited the loader
DN_InitEndStep == dn_pendingInits' = dn_pendingInits - 1

\* C13: an initialize() that fails, at the loader, at the creation of the
\* kernel context or at the allocation of either scratch buffer, rejects,
\* leaves the instance not initialized and leaves allocated nothing of what
\* it allocated; and no destroy() ever releases a handle that is not
\* allocated, so a later destroy() does not throw.
C13_FailedInitReleases ==
  [][ /\ (DN_InitEndStep /\ ~dn_isInitialized') => dn_lastOp' = "initThrew"
      /\ dn_lastOp' = "initThrew"
           => /\ ~dn_isInitialized'
              /\ k_live' = k_live
      /\ ~k_doubleFree' ]_vars

\* C13 witness: the allocation of the output buffer failed when the context
\* and the input buffer had been allocated; nothing is left allocated
C13_Witness ==
  /\ dn_type = RNNOISE
  /\ dn_lastOp = "initThrew"
  /\ dn_initCalls = 1
  /\ dn_module = 0
  /\ dn_frameSize = KernelFrameSize
  /\ k_live = {}

\* ========================================================================
\* Claims about AudioTrackDenoiser.create (checked under SpecCreate)
\* ========================================================================

\* C14: every create() call that has returned returned an AudioTrackDenoiser
\* whose denoiser had completed initialize() successfully, whatever the
\* interleaving of the create() calls and whether or not an earlier create()
\* failed in the initialization of the denoiser.
C14_CreateReturnsInitialized ==
  \A c \in 1..NumCreators :
    ta_creators[c].pc = "returned" => ta_creators[c].ready

\* the sessions whose abort signal is not set
TP_Live == {k \in 1..Len(tp_sessions) : ~tp_sessions[k].aborted}

\* C15: at most one processing session is live; startProcessing during a
\* session sets that session's abort signal and replaces its state by the
\* new session's; stopProcessing without a session changes nothing.
C15_OneLiveSession ==
  [][ /\ Cardinality(TP_Live') <= 1
      /\ TP_Live' = {tp_state'[k].id : k \in 1..Len(tp_state')}
      /\ (tp_lastOp' = "start" /\ tp_state # <<>>) =>
           /\ tp_sessions'[tp_state[1].id].aborted
           /\ tp_state' = <<TP_NewState(Len(tp_sessions'), TD_FrameSize)>>
           /\ tp_state'[1].id # tp_state[1].id
      /\ tp_lastOp' = "stopNoop" =>
           /\ tp_state = <<>>
           /\ UNCHANGED <<tp_state, tp_sessions, tp_processedTrack, tp_emitted>>
    ]_vars

C15_Witness ==
  /\ tp_lastOp = "start"
  /\ Len(tp_sessions) = 2
  /\ tp_sessions[1].aborted
  /\ TP_Live = {2}
  /\ tp_state # <<>> /\ tp_state[1].id = 2
  /\ tp_transforms = 1

\* C20: startProcessing does not return a processed track for a two-channel
\* track.
C20_StereoRejectedAtStart ==
  tp_lastOp = "start" =>
    ~(tp_sessions[Len(tp_sessions)].channels = 2
        /\ tp_processedTrack = Len(tp_sessions))

\* the session in progress has a pipeline that has not failed
TP_Running == tp_state # <<>> /\ ~tp_sessions[tp_state[1].id].errored

\* the frames the re-blocker enqueued, those of them enqueued by the pipeline
\* of session id, and the samples in a list of frames
TP_Blocks == SelectSeq(tp_emitted, LAMBDA e : ~e.passthrough)

TP_BlocksOf(id) == SelectSeq(TP_Blocks, LAMBDA e : e.pipe = id)

RECURSIVE TP_Samples(_)
TP_Samples(frames) ==
  IF frames = <<>> THEN 0 ELSE Head(frames).n + TP_Samples(Tail(frames))

\* C16: in a running session the frames emitted by the re-blocker of its
\* pipeline each hold frame_size samples, together never more than the
\* inbound samples the pipeline received; the difference is the number of
\* samples held in the re-block buffer, which is less than frame_size.
C16_ReblockerConservation ==
  TP_Running =>
    LET st == tp_state[1]
        own == TP_BlocksOf(st.id)
    IN /\ \A k \in 1..Len(own) : own[k].n = st.bufLen
       /\ TP_Samples(own) <= st.inSamples
       /\ st.inSamples - TP_Samples(own) = st.bufferFrameCount
       /\ st.bufferFrameCount >= 0
       /\ st.bufferFrameCount < TD_FrameSize

\* C17: the timestamps of the frames a session's pipeline emits never
\* decrease (the inbound timestamps never decrease: each frame starts at or
\* after the start of the one before it).
C17_TimestampsNonDecreasing ==
  \A k, l \in 1..Len(tp_emitted) :
    (k < l /\ tp_emitted[k].pipe = tp_emitted[l].pipe) =>
      tp_emitted[k].ts <= tp_emitted[l].ts

\* C18: fadeInRemaining starts at FADE_IN_SAMPLES, stays within
\* 0..FADE_IN_SAMPLES, never increases during a session, is what is left of
\* FADE_IN_SAMPLES after the blocks the fade-in step has processed (0 once
\* they hold that many samples), and a block processed at 0 is not attenuated
\* by the fade-in.
C18_FadeIn ==
  [][ /\ tp_state' # <<>> =>
           /\ tp_state'[1].fadeInRemaining \in 0..FADE_IN_SAMPLES
           /\ tp_state'[1].fadeInRemaining =
                Max2(0, FADE_IN_SAMPLES
                          - tp_state'[1].framesEnqueued * tp_state'[1].bufLen)
      /\ (tp_state' # <<>> /\ (tp_state = <<>> \/ tp_lastOp' = "start")) =>
           tp_state'[1].fadeInRemaining = FADE_IN_SAMPLES
      /\ (tp_state # <<>> /\ tp_state' # <<>> /\ tp_lastOp' # "start") =>
           /\ tp_state'[1].fadeInRemaining <= tp_state[1].fadeInRemaining
           /\ tp_state'[1].framesEnqueued = tp_state[1].framesEnqueued + 1 =>
                tp_state'[1].fadeInRemaining =
                  tp_state[1].fadeInRemaining
                    - Min2(tp_state[1].bufLen, tp_state[1].fadeInRemaining)
      /\ \A k \in 1..Len(tp_emitted') :
           (~tp_emitted'[k].passthrough /\ tp_emitted'[k].fadeBefore = 0) =>
             tp_emitted'[k].faded = tp_emitted'[k].den
    ]_vars

C18_Witness ==
  /\ TP_Running
  /\ tp_state[1].bufLen = 400
  /\ tp_state[1].framesProcessed = 5
  /\ tp_state[1].fadeInRemaining = 0
  /\ Len(TP_Blocks) = 5
  /\ TP_Blocks[1].fadeBefore = FADE_IN_SAMPLES /\ TP_Blocks[1].faded # TP_Blocks[1].den
  /\ TP_Blocks[3].fadeBefore = 160
  /\ TP_Blocks[4].fadeBefore = 0 /\ TP_Blocks[4].faded = 1500

\* C19: no sample of an emitted frame is above 1 or below -1.
C19_HardClamp ==
  \A k \in 1..Len(tp_emitted) :
    tp_emitted[k].sample >= -1000 /\ tp_emitted[k].sample <= 1000

C26_PreviousGainRange ==
  /\ vc_state.previousGain >= vc_config.minGateGain
  /\ vc_state.previousGain <= 10000

\* a step that is a call of create() on the registry
RG_CreateStep == rg_ops' = rg_ops + 1 /\ rg_result'.op = "create"

\* C27: create(type, config) fails with the unknown-type error when type has
\* no registration and with the unsupported error when the registration's
\* predicate returns false, without invoking the factory; otherwise the
\* factory is invoked once with every supplied key at its supplied value and
\* every other key of defaultConfig at its default.
C27_RegistryCreate ==
  [][ RG_CreateStep =>
        LET type == rg_result'.type
            supplied == rg_result'.supplied
            regs == {k \in 1..Len(rg_registrations) :
                       rg_registrations[k].type = type}
        IN /\ rg_registrations' = rg_registrations
           /\ regs = {} =>
                /\ rg_result'.kind = "unknownType"
                /\ rg_factoryCalls' = rg_factoryCalls
           /\ \A k \in regs :
                IF ~rg_registrations[k].supported
                  THEN /\ rg_result'.kind = "unsupported"
                       /\ rg_factoryCalls' = rg_factoryCalls
                  ELSE LET defaults == rg_registrations[k].defaultConfig
                           passed == rg_result'.passed
                       IN /\ rg_result'.kind = "instance"
                          /\ rg_factoryCalls' = rg_factoryCalls + 1
                          /\ DOMAIN passed = DOMAIN defaults \cup DOMAIN supplied
                          /\ \A key \in DOMAIN supplied :
                               passed[key] = supplied[key]
                          /\ \A key \in DOMAIN defaults \ DOMAIN supplied :
                               passed[key] = defaults[key]
    ]_vars

C27_Witness ==
  /\ rg_result.op = "create"
  /\ rg_result.kind = "instance"
  /\ rg_result.type = DEEP_FILTER_NET
  /\ rg_result.supplied = [attenLimit |-> 40]
  /\ rg_result.passed = [attenLimit |-> 40, debug |-> 1]
  /\ rg_factoryCalls = 2

\* C28: a neural denoiser created through the registry with a configuration
\* that names neither attenLimit nor postFilterBeta, the built-in registration
\* being in place, runs with attenuation limit 18 dB and post-filter beta
\* 0.03, and enables the post-filter when it is initialized.
C28_NeuralDefaults ==
  ( /\ rg_result.op = "create"
    /\ rg_result.kind = "instance"
    /\ rg_result.type = DEEP_FILTER_NET
    /\ DOMAIN rg_result.supplied \cap {"attenLimit", "postFilterBeta"} = {}
    /\ rg_registrations = RG_Builtin )
  => /\ DF_CreateAttenLimit(rg_result.config) = DEFAULT_ATTEN_LIMIT
     /\ DF_EffectivePostFilterBeta(rg_result.config) = DEFAULT_POST_FILTER_BETA
     /\ DF_PostFilterEnabled(rg_result.config)

\* C29: getBestAvailable(priority) returns the first type of priority that is
\* registered and supported; if there is none, the first registered and
\* supported type in the order of the registry; if there is none, nothing.
\* It never returns a type that is unregistered or unsupported.
C29_BestAvailable ==
  rg_result.op = "getBestAvailable" =>
    LET best == rg_result.type
        priority == rg_result.priority
        ok(t) == \E k \in 1..Len(rg_registrations) :
                   rg_registrations[k].type = t /\ rg_registrations[k].supported
        listed == {p \in 1..Len(priority) : ok(priority[p])}
        usable == {k \in 1..Len(rg_registrations) : rg_registrations[k].supported}
    IN /\ best # "none" => ok(best)
       /\ listed # {} =>
            \E p \in listed : /\ best = priority[p]
                              /\ \A q \in listed : p <= q
       /\ (listed = {} /\ usable # {}) =>
            \E k \in usable : /\ best = rg_registrations[k].type
                              /\ \A j \in usable : k <= j
       /\ usable = {} => best = "none"

C29_Witness ==
  /\ rg_result.op = "getBestAvailable"
  /\ rg_result.priority = <<RNNOISE, DEEP_FILTER_NET>>
  /\ rg_result.type = DEEP_FILTER_NET
  /\ Len(rg_registrations) = 2
  /\ rg_registrations[1].type = RNNOISE /\ ~rg_registrations[1].supported

\* C21: the VAD gain branch runs for a block exactly when applyVadGain is on,
\* the denoiser is RNNoise and the block's VAD score is above 0: then the gain
\* controller advances by computeGain(vad) and the emitted sample is the
\* clamped, faded denoiser output blended with the original under the gain
\* ramp; otherwise the gain controller's state is unchanged and the emitted
\* sample is the denoiser output after fade-in and clamp alone.
C21_VadGainBranch ==
  [][ LET new == SubSeq(tp_emitted', Len(tp_emitted) + 1, Len(tp_emitted'))
          branch(e) == tp_applyVadGain /\ td_type = RNNOISE /\ e.vad > 0
      IN (/\ tp_lastOp' \in {"transform", "lateTransform"}
          /\ tp_state # <<>> /\ tp_state' # <<>>) =>
           /\ \A k \in 1..Len(new) :
                (~new[k].passthrough /\ ~branch(new[k])) =>
                  new[k].sample = TP_ClampSample(new[k].faded)
           /\ (\A k \in 1..Len(new) : ~branch(new[k])) =>
                tp_state'[1].vadGain = tp_state[1].vadGain
           /\ (Len(new) = 1 /\ branch(new[1])) =>
                /\ tp_state'[1].vadGain =
                     VG_ComputeGain(tp_state[1].vadGain, new[1].vad)
                /\ new[1].sample =
                     VG_BlendSample(TP_ClampSample(new[1].faded), new[1].orig,
                                    new[1].i, tp_state[1].bufLen,
                                    tp_state[1].vadGain.previousGain,
                                    tp_state'[1].vadGain.previousGain)
    ]_vars

C21_Witness ==
  /\ tp_applyVadGain /\ td_type = RNNOISE
  /\ tp_lastOp = "transform"
  /\ Len(TP_Blocks) = 3
  /\ TP_Blocks[1].vad > 0
  /\ TP_Blocks[1].sample # TP_ClampSample(TP_Blocks[1].faded)
  /\ TP_Blocks[3].vad = 0
  /\ TP_Blocks[3].sample = TP_ClampSample(TP_Blocks[3].faded)
  /\ tp_state # <<>>
  /\ tp_state[1].vadGain.previousGain < 10000

\* C24: stopProcessing (called by stop, by a new startProcessing, or by
\* processFrame when the generator has ended) releases the session state, and
\* the state of a stopped session is never the state in progress again; every
\* startProcessing begins with an empty buffer, counters at 0, fadeInRemaining
\* at FADE_IN_SAMPLES and a gain controller in its initial state.
C24_FreshStart ==
  [][ /\ tp_lastOp' = "stop" =>
           /\ tp_state # <<>> /\ tp_state' = <<>>
           /\ tp_sessions'[tp_state[1].id].aborted
      /\ (tp_lastOp' \in {"transform", "lateTransform"}
            /\ tp_state # <<>> /\ tp_state' = <<>>) =>
           /\ tp_sessions[tp_state[1].id].ended
           /\ tp_sessions'[tp_state[1].id].aborted
      /\ \A k \in 1..Len(tp_sessions') :
           tp_sessions'[k].aborted =>
             (tp_state' = <<>> \/ tp_state'[1].id # k)
      /\ (tp_lastOp' = "start" /\ tp_state' # <<>>) =>
           /\ tp_state'[1].id = Len(tp_sessions')
           /\ tp_state'[1].id \notin
                {k \in 1..Len(tp_sessions) : tp_sessions[k].aborted}
           /\ tp_state'[1].bufferFrameCount = 0
           /\ tp_state'[1].framesReceived = 0
           /\ tp_state'[1].framesProcessed = 0
           /\ tp_state'[1].framesEnqueued = 0
           /\ tp_state'[1].fadeInRemaining = 960
           /\ tp_state'[1].vadGain =
                [smoothedVad |-> 0, hangoverFrames |-> 0,
                 previousGain |-> 10000, targetGain |-> 10000]
    ]_vars

C24_Witness ==
  /\ tp_lastOp = "start"
  /\ Len(tp_sessions) = 2
  /\ tp_sessions[1].aborted
  /\ tp_sessions[1].logged = 2
  /\ tp_applyVadGain /\ td_type = RNNOISE
  /\ tp_state # <<>>
  /\ tp_state[1].id = 2
  /\ tp_state[1].fadeInRemaining = FADE_IN_SAMPLES
  /\ tp_state[1].vadGain = VG_InitialState

\* C23: once a session's transform has thrown (a frame that is not mono
\* f32-planar, or a block the denoiser rejects), the session is released:
\* its state is no longer the state in progress (isProcessing() is false
\* unless a later session was started) and its generator is no longer the
\* processed track.
C23_FatalErrorReleases ==
  \A k \in 1..Len(tp_sessions) :
    tp_sessions[k].errored =>
      /\ tp_state = <<>> \/ tp_state[1].id # k
      /\ tp_processedTrack # k

\* C22: no frame, processed or unprocessed, is emitted by a session's
\* pipeline after stopProcessing has set the session's abort signal.
C22_NoFrameAfterStop ==
  \A k \in 1..Len(tp_emitted) : ~tp_emitted[k].afterStop

\* C30: a transform call of the pipeline of a stopped or replaced session
\* neither writes the state of the session in progress nor emits frames
\* re-blocked through it.
C30_SessionStateOwnership ==
  [][ tp_lastOp' = "lateTransform" =>
        LET new == SubSeq(tp_emitted', Len(tp_emitted) + 1, Len(tp_emitted'))
        IN /\ tp_state' = tp_state
           /\ \A k \in 1..Len(new) : new[k].passthrough
    ]_vars

\* C31: every frame enqueued downstream is a block of the re-blocker: it
\* holds frame_size samples and its samples went through the denoiser, the
\* fade-in and the clamp (it is not an inbound frame handed on as it came).
C31_OnlyProcessedFrames ==
  \A k \in 1..Len(tp_emitted) :
    /\ ~tp_emitted[k].passthrough
    /\ tp_emitted[k].n = TD_FrameSize

\* C32: once processFrame has found the generator ended and stopped the
\* session, the denoiser is not invoked again for that session, in the rest
\* of the same inbound frame or later.
C32_NoWorkAfterDownstreamClosed ==
  \A k \in 1..Len(tp_sessions) : tp_sessions[k].callsAfterStop = 0

\* C33: of the blocks one transform call emits, the first carries the inbound
\* frame's timestamp if the re-block buffer was empty when the frame arrived,
\* and otherwise the nextTimestamp left by the previous emit; each further
\* block carries timestamp + duration * offset / frame_count for the offset
\* of the inbound frame at which it starts; nextTimestamp is left at that
\* value for the offset after the last block.
C33_BlockTimestamps ==
  [][ LET new == SubSeq(tp_emitted', Len(tp_emitted) + 1, Len(tp_emitted'))
          in == tp_lastIn'
          first == tp_state[1].bufLen - tp_state[1].bufferFrameCount
          start(k) == first + (k - 2) * tp_state[1].bufLen
      IN (/\ tp_lastOp' \in {"transform", "lateTransform"}
          /\ tp_state # <<>> /\ tp_state' # <<>>
          /\ Len(new) > 0 /\ ~new[1].passthrough) =>
           /\ new[1].ts = IF tp_state[1].bufferFrameCount = 0
                            THEN in.ts ELSE tp_state[1].nextTimestamp
           /\ \A k \in 2..Len(new) :
                new[k].ts = in.ts + (in.dur * start(k)) \div in.n
           /\ tp_state'[1].nextTimestamp =
                in.ts + (in.dur * start(Len(new) + 1)) \div in.n
    ]_vars

C33_Witness ==
  /\ tp_lastOp = "transform"
  /\ tp_state # <<>> /\ tp_state[1].bufLen = 400
  /\ tp_lastIn = [ts |-> 10000, dur |-> 20833, n |-> 1000]
  /\ Len(TP_Blocks) = 3
  /\ TP_Blocks[1].ts = 0
  /\ TP_Blocks[2].ts = 8333
  /\ TP_Blocks[3].ts = 16666
  /\ tp_state[1].nextTimestamp = 24999
  /\ tp_state[1].bufferFrameCount = 280

\* the iterations of the re-blocking loop for an inbound frame of n samples,
\* from offset on with buffered samples in the buffer: each copies at least
\* one sample, stays within the buffer's frameSize and within the frame
RECURSIVE TP_IterationsInBounds(_, _, _, _)
TP_IterationsInBounds(buffered, offset, n, frameSize) ==
  IF offset >= n THEN TRUE
  ELSE LET count == TP_CopyCount(frameSize, buffered, n, offset)
       IN /\ count >= 1
          /\ buffered + count <= frameSize
          /\ offset + count <= n
          /\ TP_IterationsInBounds(
               IF buffered + count = frameSize THEN 0 ELSE buffered + count,
               offset + count, n, frameSize)

\* C39: between transform calls the session holds 0 <= bufferFrameCount <
\* frame_size; from there the re-blocking loop ends for every inbound frame
\* size with every iteration in bounds; and framesProcessed * frame_size +
\* bufferFrameCount is the number of inbound samples accepted into the
\* session's buffer.
C39_LoopInBounds ==
  tp_state # <<>> =>
    LET st == tp_state[1]
    IN /\ st.bufferFrameCount >= 0
       /\ st.bufferFrameCount < TD_FrameSize
       /\ \A in \in TP_Frames :
            TP_IterationsInBounds(st.bufferFrameCount, 0, in.n, TD_FrameSize)
       /\ st.framesProcessed * TD_FrameSize + st.bufferFrameCount
            = st.acceptedSamples

\* C34: the spectral denoiser is initialized exactly when it holds the
\* module, a kernel context and both scratch buffers, all of them allocated
\* in the kernel's heap, and then frameSize is the size the kernel reported.
C34_InitializedIffAllocated ==
  dn_type = RNNOISE =>
    /\ dn_isInitialized <=>
         /\ dn_module # 0
         /\ dn_context # 0 /\ dn_context \in k_live
         /\ dn_inBuf # 0 /\ dn_inBuf \in k_live
         /\ dn_outBuf # 0 /\ dn_outBuf \in k_live
    /\ dn_isInitialized => dn_frameSize = KernelFrameSize

\* C36: whatever initialize() calls were made on a spectral denoiser,
\* overlapping or not, the kernel's heap holds at most one context and one
\* pair of scratch buffers, and every handle allocated in it is one the
\* instance still holds (none has become unreachable without being freed).
C36_InitializeAllocatesOnce ==
  dn_type = RNNOISE =>
    /\ Cardinality(k_live) <= 3
    /\ k_live \subseteq DN_Held

\* C35: the spectral denoiser's teardown releases in the reverse order of
\* allocation: a destroy() that released the context and both buffers freed
\* the output buffer first, then the input buffer, then the context.
C35_ReverseRelease ==
  (dn_type = RNNOISE /\ dn_lastOp = "destroy" /\ Len(k_log) = 3) =>
    \A i \in 1..3 : k_log[i].res = K_Allocs(1, 1, 1)[4 - i].res

\* C37: after every computeGain call the hangover counter is within
\* 0..hangoverFrames; if the smoothed VAD is above the threshold the counter
\* is hangoverFrames and the target gain is 1; otherwise the counter is one
\* less than before the call, or 0 if it was 0.
C37_Hangover ==
  [][ (vc_lastOp' = "computeGain" /\ vc_ops' = vc_ops + 1) =>
        /\ vc_state'.hangoverFrames >= 0
        /\ vc_state'.hangoverFrames <= vc_config.hangoverFrames
        /\ vc_state'.smoothedVad > vc_config.vadThreshold =>
             /\ vc_state'.hangoverFrames = vc_config.hangoverFrames
             /\ vc_state'.targetGain = 10000
        /\ vc_state'.smoothedVad <= vc_config.vadThreshold =>
             vc_state'.hangoverFrames = Max2(0, vc_state.hangoverFrames - 1)
    ]_vars

\* ========================================================================
\* Claims about DeepFilterNetProcessor.configure (checked under SpecConfigure)
\* ========================================================================

\* a configure(partial) step on an initialized instance pushes each named
\* value to the kernel's context and stores it, and leaves the others alone
DC_AppliesNamed ==
  /\ ~dc_call'.threw
  /\ dc_context' = dc_context
  /\ Len(dc_kernel') = Len(dc_kernel)
  /\ \A c \in DOMAIN dc_kernel : c # dc_context => dc_kernel'[c] = dc_kernel[c]
  /\ dc_context \in DOMAIN dc_kernel
  /\ IF "attenLimit" \in DOMAIN dc_call'.partial
       THEN /\ dc_kernel'[dc_context].attenLim = dc_call'.partial.attenLimit
            /\ dc_config'.attenLimit = dc_call'.partial.attenLimit
       ELSE /\ dc_kernel'[dc_context].attenLim = dc_kernel[dc_context].attenLim
            /\ dc_config'.attenLimit = dc_config.attenLimit
  /\ IF "postFilterBeta" \in DOMAIN dc_call'.partial
       THEN /\ dc_kernel'[dc_context].beta = dc_call'.partial.postFilterBeta
            /\ dc_config'.postFilterBeta = dc_call'.partial.postFilterBeta
       ELSE /\ dc_kernel'[dc_context].beta = dc_kernel[dc_context].beta
            /\ dc_config'.postFilterBeta = dc_config.postFilterBeta

\* a configure step
DC_ConfigureStep == dc_ops' = dc_ops + 1 /\ dc_call'.op = "configure"

\* C38 as stated: configure on an instance that is not initialized fails and
\* leaves the stored configuration and the kernel untouched; on an
\* initialized instance each named value is pushed to the kernel and stored,
\* and unnamed values are unchanged.
C38_ConfigureOnlyInitialized ==
  [][ DC_ConfigureStep =>
        IF dc_isInitialized
          THEN DC_AppliesNamed
          ELSE dc_call'.threw /\ dc_config' = dc_config /\ dc_kernel' = dc_kernel
    ]_vars

\* C38, amended: configure on an instance that is not initialized leaves the
\* stored configuration and the kernel untouched, and fails if and only if
\* its argument names attenLimit or postFilterBeta; on an initialized
\* instance each named value is pushed to the kernel and stored, and unnamed
\* values are unchanged.
C38_ConfigureNamed ==
  [][ DC_ConfigureStep =>
        IF dc_isInitialized
          THEN DC_AppliesNamed
          ELSE /\ dc_call'.threw <=> (DOMAIN dc_call'.partial # {})
               /\ dc_config' = dc_config
               /\ dc_kernel' = dc_kernel
    ]_vars

\* configure named both values on an instance that was initialized,
\* destroyed and initialized again, and both reached its second context
C38_Witness ==
  /\ dc_call.op = "configure"
  /\ dc_call.initialized
  /\ DOMAIN dc_call.partial = {"attenLimit", "postFilterBeta"}
  /\ dc_context = 2
  /\ dc_kernel[2] = [attenLim |-> 30, beta |-> 5]
  /\ dc_kernel[1] = [attenLim |-> DEFAULT_ATTEN_LIMIT,
                     beta |-> DEFAULT_POST_FILTER_BETA]
  /\ dc_config = [attenLimit |-> 30, postFilterBeta |-> 5]

\* ========================================================================
\* Claims about greatestCommonDivisor and leastCommonMultiple
\* (checked under SpecMathFair)
\* ========================================================================

\* d is the greatest common divisor of x and y (0 for 0, 0)
GM_IsGcd(d, x, y) ==
  IF x = 0 /\ y = 0 THEN d = 0
  ELSE /\ d > 0
       /\ x % d = 0
       /\ y % d = 0
       /\ \A e \in (d + 1)..Max2(x, y) : ~(x % e = 0 /\ y % e = 0)

\* the value a call returned is right: greatestCommonDivisor returned the
\* greatest common divisor, leastCommonMultiple a number whose product with
\* it is num1 * num2
GM_ResultRight ==
  gm_pc = "done" =>
    /\ GM_IsGcd(gm_b, gm_num1, gm_num2)
    /\ ~gm_result.nan
    /\ gm_fn = "gcd" => gm_result.value = gm_b
    /\ gm_fn = "lcm" => gm_result.value * gm_b = gm_num1 * gm_num2

\* C40: greatestCommonDivisor(a, b) terminates for every pair of
\* non-negative integers (and with it leastCommonMultiple, which calls it):
\* every call that has started returns. What a call that returns has
\* returned is GM_ResultRight.
C40_GcdTerminates == (gm_pc = "loop") ~> (gm_pc = "done")

====
